---------------------------- MODULE Spec2Model ----------------------------
(***************************************************************************)
(* graphtik: the network of operations and data, its compilation into an  *)
(* execution plan (pruning, step sequencing, evictions) and the plan      *)
(* cache of Network.compile (src/graphtik/network.py).                    *)
(*                                                                         *)
(* Data nodes are strings ("x", "r/k"); operation nodes are the names of  *)
(* the operations ("op1"); the two universes are disjoint, which stands   *)
(* for isinstance(node, Operation) / isinstance(node, str).               *)
(***************************************************************************)
EXTENDS Integers, Sequences, FiniteSets, TLC

\* Python's None.
None == "None"

---------------------------------------------------------------------------
(* Sequence helpers (Python list / tuple / IndexedSet idioms).             *)

Range(s) == {s[i] : i \in DOMAIN s}

\* `x in seq`
InSeq(s, x) == \E i \in DOMAIN s : s[i] = x

\* position of the first occurrence of x in s (0 when absent)
IndexOf(s, x) == IF InSeq(s, x) THEN CHOOSE i \in DOMAIN s : s[i] = x /\ \A j \in 1..(i - 1) : s[j] # x ELSE 0

\* the elements of s that satisfy Keep, in the order of s
RECURSIVE FilterSeq(_, _)
FilterSeq(s, keep) == IF s = <<>> THEN <<>> ELSE (IF Head(s) \in keep THEN <<Head(s)>> ELSE <<>>) \o FilterSeq(Tail(s), keep)

\* boltons IndexedSet(iterable): first occurrences, in order
RECURSIVE iset(_)
iset(s) == IF s = <<>> THEN <<>> ELSE LET r == iset(SubSeq(s, 1, Len(s) - 1)) IN IF InSeq(r, s[Len(s)]) THEN r ELSE Append(r, s[Len(s)])

RECURSIVE Reverse(_)
Reverse(s) == IF s = <<>> THEN <<>> ELSE Append(Reverse(Tail(s)), Head(s))

---------------------------------------------------------------------------
(* Dependencies and operations.                                            *)
(* A dependency is [parts, optional]: parts are the json-pointer steps of  *)
(* its name (one step for a plain name), optional the optional() modifier. *)
(* An operation is [name, needs, provides] with needs/provides sequences   *)
(* of dependencies.                                                        *)

\* "/".join(parts)
RECURSIVE JoinPath(_)
JoinPath(parts) == IF Len(parts) = 1 THEN parts[1] ELSE JoinPath(SubSeq(parts, 1, Len(parts) - 1)) \o "/" \o parts[Len(parts)]

\* str(dep): the node name of a dependency
DepName(dep) == JoinPath(dep.parts)

\* get_jsonp(n): the steps of a json-pointer dependency, falsy for a plain name
get_jsonp(dep) == IF Len(dep.parts) > 1 THEN dep.parts ELSE <<>>

is_optional(dep) == dep.optional

NeedNames(op) == [i \in DOMAIN op.needs |-> DepName(op.needs[i])]
ProvideNames(op) == [i \in DOMAIN op.provides |-> DepName(op.provides[i])]

---------------------------------------------------------------------------
(* networkx.DiGraph: nodes in insertion order; edges <<src, dst>> in       *)
(* insertion order (the order of a node's successors and predecessors is   *)
(* the order of its edges in that sequence); the edges carrying            *)
(* subdoc=True / optional=True.  id tells a graph object from the graphs    *)
(* copied from it: a method that changes a graph in place keeps its id, a  *)
(* copy has the next one.                                                  *)

EmptyGraph == [id |-> 0, nodes |-> <<>>, edges |-> <<>>, subdoc |-> {}, optional |-> {}]

HasNode(g, n) == InSeq(g.nodes, n)

NodeSet(g) == Range(g.nodes)

EdgeSet(g) == Range(g.edges)

add_node(g, n) == IF HasNode(g, n) THEN g ELSE [g EXCEPT !.nodes = Append(@, n)]

RECURSIVE add_nodes_from(_, _)
add_nodes_from(g, ns) == IF ns = <<>> THEN g ELSE add_nodes_from(add_node(g, Head(ns)), Tail(ns))

\* add_edge(u, v, **attrs): both ends become nodes (u first), attributes are merged
add_edge(g, u, v, subdoc, optional) ==
    LET g2 == add_node(add_node(g, u), v)
    IN [g2 EXCEPT !.edges = IF InSeq(@, <<u, v>>) THEN @ ELSE Append(@, <<u, v>>),
                  !.subdoc = IF subdoc THEN @ \cup {<<u, v>>} ELSE @,
                  !.optional = IF optional THEN @ \cup {<<u, v>>} ELSE @]

in_edges(g, n) == {e \in EdgeSet(g) : e[2] = n}
out_edges(g, n) == {e \in EdgeSet(g) : e[1] = n}
Successors(g, n) == {e[2] : e \in out_edges(g, n)}
Predecessors(g, n) == {e[1] : e \in in_edges(g, n)}

\* g.adj[n] / g.successors(n), in adjacency order
RECURSIVE SuccSeqOf(_, _)
SuccSeqOf(edges, n) == IF edges = <<>> THEN <<>> ELSE (IF Head(edges)[1] = n THEN <<Head(edges)[2]>> ELSE <<>>) \o SuccSeqOf(Tail(edges), n)
SuccSeq(g, n) == SuccSeqOf(g.edges, n)

\* g.predecessors(n), in adjacency order
RECURSIVE PredSeqOf(_, _)
PredSeqOf(edges, n) == IF edges = <<>> THEN <<>> ELSE (IF Head(edges)[2] = n THEN <<Head(edges)[1]>> ELSE <<>>) \o PredSeqOf(Tail(edges), n)
PredSeq(g, n) == PredSeqOf(g.edges, n)

\* nodes of g in g's node order restricted to a set
InNodeOrder(g, S) == FilterSeq(g.nodes, S)

\* nx.ancestors(g, n): the nodes with a path to n
RECURSIVE AncestorsFrom(_, _, _)
AncestorsFrom(g, frontier, seen) ==
    LET new == UNION {Predecessors(g, n) : n \in frontier} \ seen
    IN IF new = {} THEN seen ELSE AncestorsFrom(g, new, seen \cup new)
Ancestors(g, n) == AncestorsFrom(g, {n}, {})

\* the graph is acyclic: no node is its own ancestor
IsDag(g) == \A n \in NodeSet(g) : n \notin Ancestors(g, n)

\* remove_edges_from
remove_edges_from(g, E) ==
    [g EXCEPT !.edges = FilterSeq(@, EdgeSet(g) \ E), !.subdoc = @ \ E, !.optional = @ \ E]

\* remove_nodes_from: the nodes and every edge at them
remove_nodes_from(g, N) ==
    LET gone == {e \in EdgeSet(g) : e[1] \in N \/ e[2] \in N}
    IN [id |-> g.id,
        nodes |-> FilterSeq(g.nodes, NodeSet(g) \ N),
        edges |-> FilterSeq(g.edges, EdgeSet(g) \ gone),
        subdoc |-> g.subdoc \ gone,
        optional |-> g.optional \ gone]

\* nx.isolates(g): nodes without any edge
isolates(g) == {n \in NodeSet(g) : in_edges(g, n) = {} /\ out_edges(g, n) = {}}

\* the edges of a copy: by source node in the copy's node order, each source's
\* edges in its adjacency order (Graph.copy re-adds the edges this way)
RECURSIVE CopyEdges(_, _, _)
CopyEdges(nodes, edges, keep) ==
    IF nodes = <<>> THEN <<>>
    ELSE FilterSeq(edges, {e \in Range(edges) : e[1] = Head(nodes) /\ e[2] \in keep}) \o CopyEdges(Tail(nodes), edges, keep)

\* a graph with the given node order and the edges of g among those nodes
CopyWithNodes(g, nodes) ==
    LET kept == CopyEdges(nodes, g.edges, Range(nodes))
    IN [id |-> g.id + 1, nodes |-> nodes, edges |-> kept, subdoc |-> g.subdoc \cap Range(kept), optional |-> g.optional \cap Range(kept)]

\* no copy: the same graph object under another name
same_graph(g) == g

\* g.copy()
copy(g) == CopyWithNodes(g, g.nodes)

---------------------------------------------------------------------------
(* Network._append_operation                                               *)

\* doc_chain: every prefix of the json-pointer steps, joined
DocChain(parts) == [i \in DOMAIN parts |-> JoinPath(SubSeq(parts, 1, i))]

\* boltons pairwise(doc_chain)
Pairwise(s) == [i \in 1..(Len(s) - 1) |-> <<s[i], s[i + 1]>>]

\* unseen_subdoc_edges + graph.add_edges_from: from the leaf edge towards the
\* root, stopping at the first edge this operation has already added.
\* st = [g, seen]
RECURSIVE AddUnseenSubdocEdges(_, _)
AddUnseenSubdocEdges(st, revEdges) ==
    IF revEdges = <<>> \/ Head(revEdges) \in st.seen THEN st
    ELSE AddUnseenSubdocEdges(
            [g |-> add_edge(st.g, Head(revEdges)[1], Head(revEdges)[2], TRUE, FALSE),
             seen |-> st.seen \cup {Head(revEdges)}],
            Tail(revEdges))

\* only the edge from the parent to the leaf document is added
append_leaf_edge(st, parts) ==
    AddUnseenSubdocEdges(st, <<Pairwise(DocChain(parts))[Len(parts) - 1]>>)

append_subdoc_chain(st, parts) == AddUnseenSubdocEdges(st, Reverse(Pairwise(DocChain(parts))))

\* the chains of a list of dependencies, in order
RECURSIVE AppendChains(_, _)
AppendChains(st, deps) ==
    IF deps = <<>> THEN st
    ELSE AppendChains(IF get_jsonp(Head(deps)) # <<>> THEN append_subdoc_chain(st, get_jsonp(Head(deps))) ELSE st, Tail(deps))

RECURSIVE AddNeedEdges(_, _, _)
AddNeedEdges(g, opname, needs) ==
    IF needs = <<>> THEN g
    ELSE AddNeedEdges(add_edge(g, DepName(Head(needs)), opname, FALSE, is_optional(Head(needs))), opname, Tail(needs))

\* provides: chain, then the edge operation -> provide, one provide at a time
RECURSIVE AddProvides(_, _, _)
AddProvides(st, opname, provides) ==
    IF provides = <<>> THEN st
    ELSE LET p == Head(provides)
             st2 == IF get_jsonp(p) # <<>> THEN append_subdoc_chain(st, get_jsonp(p)) ELSE st
         IN AddProvides([st2 EXCEPT !.g = add_edge(st2.g, opname, DepName(p), FALSE, FALSE)], opname, Tail(provides))

append_operation(graph, op) ==
    LET st1 == AppendChains([g |-> graph, seen |-> {}], op.needs)
        g2 == add_nodes_from(st1.g, NeedNames(op))
        g3 == add_node(g2, op.name)
        g4 == AddNeedEdges(g3, op.name, op.needs)
    IN AddProvides([g |-> g4, seen |-> st1.seen], op.name, op.provides).g

RECURSIVE AppendOperations(_, _)
AppendOperations(g, ops) ==
    IF ops = <<>> THEN g
    ELSE LET graph == append_operation(g, Head(ops))
         IN \* the graph is evaluated before the next operation is appended
            IF graph.nodes = <<>> THEN graph ELSE AppendOperations(graph, Tail(ops))

---------------------------------------------------------------------------
(* Sub-document chains (doc chains).                                       *)

\* the subdoc children / the subdoc parents of doc, in adjacency order
SubdocNeighbours(dag, doc, dir) ==
    IF dir = "out_edges"
    THEN FilterSeq(SuccSeq(dag, doc), {c \in NodeSet(dag) : <<doc, c>> \in dag.subdoc})
    ELSE FilterSeq(PredSeq(dag, doc), {c \in NodeSet(dag) : <<c, doc>> \in dag.subdoc})

\* _yield_also_chained_docs as a generator consumed one doc at a time.
\* st = [out, stop]: the docs yielded so far, and the stop set.  The caller's
\* stop set may grow while the generator runs: grow[d] is what the consumer
\* adds to it when d is yielded (nothing, when the stop set is the default ()).
RECURSIVE yield_also_chained_docs(_, _, _, _, _)
RECURSIVE DigNeighbours(_, _, _, _, _)
RECURSIVE DigDirections(_, _, _, _, _)
yield_also_chained_docs(dig_dag, dag, doc, st, grow) ==
    IF ~HasNode(dag, doc) THEN st
    ELSE IF doc \in st.stop THEN st
    ELSE DigDirections(dig_dag, dag, doc, [out |-> Append(st.out, doc), stop |-> st.stop \cup grow[doc]], grow)

DigDirections(dig_dag, dag, doc, st, grow) ==
    IF dig_dag = <<>> THEN st
    ELSE DigDirections(Tail(dig_dag), dag, doc,
                       DigNeighbours(Head(dig_dag), dag, SubdocNeighbours(dag, doc, Head(dig_dag)), st, grow), grow)

DigNeighbours(dir, dag, children, st, grow) ==
    IF children = <<>> THEN st
    ELSE DigNeighbours(dir, dag, Tail(children), yield_also_chained_docs(<<dir>>, dag, Head(children), st, grow), grow)

\* _yield_chained_docs: many docs at once
RECURSIVE yield_chained_docs(_, _, _, _, _)
yield_chained_docs(dig_dag, dag, docs, st, grow) ==
    IF docs = <<>> THEN st
    ELSE yield_chained_docs(dig_dag, dag, Tail(docs), yield_also_chained_docs(dig_dag, dag, Head(docs), st, grow), grow)

ChainBoth == <<"out_edges", "in_edges">>

\* the consumer adds nothing to the stop set
GrowNothing(dag) == [d \in NodeSet(dag) |-> {}]
\* the consumer is stop_set.update(generator): every yielded doc joins the stop set
GrowSelf(dag) == [d \in NodeSet(dag) |-> {d}]

\* set(yield_also_chaindocs(dag, doc))
yield_also_chaindocs(dag, doc) ==
    Range(yield_also_chained_docs(ChainBoth, dag, doc, [out |-> <<>>, stop |-> {}], GrowNothing(dag)).out)

\* set(yield_chaindocs(dag, docs))
yield_chaindocs(dag, docs) ==
    Range(yield_chained_docs(ChainBoth, dag, docs, [out |-> <<>>, stop |-> {}], GrowNothing(dag)).out)

\* ok_data.update(yield_chaindocs(dag, docs, ok_data)): ok_data afterwards
UpdateWithChaindocs(dag, docs, ok_data) ==
    yield_chained_docs(ChainBoth, dag, docs, [out |-> <<>>, stop |-> ok_data], GrowSelf(dag)).stop

\* root_doc: the in-edges of the given doc are scanned once, so the result is
\* the subdoc parent of doc when it has one
RECURSIVE LastSubdocParent(_, _, _, _)
LastSubdocParent(dag, preds, dst, doc) ==
    IF preds = <<>> THEN doc
    ELSE LastSubdocParent(dag, Tail(preds), dst, IF <<Head(preds), dst>> \in dag.subdoc THEN Head(preds) ELSE doc)
root_doc(dag, doc) == IF HasNode(dag, doc) THEN LastSubdocParent(dag, PredSeq(dag, doc), doc, doc) ELSE doc

---------------------------------------------------------------------------
(* Topological sorts (networkx).                                           *)

InDegree(g, n) == Cardinality(in_edges(g, n))

\* nx.lexicographical_topological_sort(dag, key=position in dag.nodes):
\* always the ready node that comes first in dag.nodes
RECURSIVE LexTopo(_, _, _)
LexTopo(g, done, out) ==
    LET ready == {n \in NodeSet(g) \ done : Predecessors(g, n) \subseteq done}
    IN IF ready = {} THEN out
       ELSE LET n == g.nodes[CHOOSE i \in DOMAIN g.nodes : g.nodes[i] \in ready /\ \A j \in 1..(i - 1) : g.nodes[j] \notin ready]
            IN LexTopo(g, done \cup {n}, Append(out, n))

\* a sort that lists the nodes as the dag holds them, whatever their edges
unsorted_nodes(dag) == dag.nodes

\* Network._topo_sort_nodes
topo_sort_nodes(dag) == LexTopo(dag, {}, <<>>)

\* nx.topological_sort(dag) up to networkx 2.5: the nodes without in-edges are
\* stacked in node order and the last one stacked is taken next
RECURSIVE KahnPush(_, _, _, _)
KahnPush(g, children, done, stack) ==
    IF children = <<>> THEN stack
    ELSE KahnPush(g, Tail(children), done,
                  IF Predecessors(g, Head(children)) \subseteq done /\ ~InSeq(stack, Head(children)) THEN Append(stack, Head(children)) ELSE stack)
RECURSIVE KahnLoop(_, _, _, _)
KahnLoop(g, stack, done, out) ==
    IF stack = <<>> THEN out
    ELSE LET node == stack[Len(stack)]
             done2 == done \cup {node}
         IN KahnLoop(g, KahnPush(g, SuccSeq(g, node), done2, SubSeq(stack, 1, Len(stack) - 1)), done2, Append(out, node))
\* nx.topological_sort(dag) since networkx 2.6: generation by generation; a
\* generation lists its nodes as the nodes of the previous one released them
RECURSIVE GenerationsLoop(_, _, _, _, _, _)
GenerationsLoop(g, this_generation, i, done, zero_indegree, out) ==
    IF this_generation = <<>> THEN out
    ELSE IF i > Len(this_generation) THEN GenerationsLoop(g, zero_indegree, 1, done, <<>>, out \o this_generation)
    ELSE LET node == this_generation[i]
             done2 == done \cup {node}
         IN GenerationsLoop(g, this_generation, i + 1, done2, KahnPush(g, SuccSeq(g, node), done2, zero_indegree), out)

\* the versions of the sort a networkx installation may bring
NxSorts == {"stack", "generations"}

\* nx.topological_sort(g): any topological order is allowed by its contract;
\* the installed version decides which one comes out
topological_sort(g, nx_sort) ==
    LET sources == FilterSeq(g.nodes, {n \in NodeSet(g) : in_edges(g, n) = {}})
    IN IF nx_sort = "stack" THEN KahnLoop(g, sources, {}, <<>>)
       ELSE GenerationsLoop(g, sources, 1, {}, <<>>, <<>>)

\* order is a topological order of g
IsTopologicalOrder(g, order) ==
    /\ Len(order) = Len(g.nodes)
    /\ Range(order) = NodeSet(g)
    /\ \A e \in EdgeSet(g) : IndexOf(order, e[1]) < IndexOf(order, e[2])

---------------------------------------------------------------------------
(* The universe of the model: the operations a network is built from, the  *)
(* names a caller may pass to compile, the node predicates.                *)

Dep(parts) == [parts |-> parts, optional |-> FALSE]
Opt(parts) == [parts |-> parts, optional |-> TRUE]
Op(name, needs, provides) == [name |-> name, needs |-> needs, provides |-> provides]

\* the operations networks are built from
Catalogue ==
    { Op("op1", <<Dep(<<"x">>)>>, <<Dep(<<"a">>)>>),
      Op("op2", <<Dep(<<"x">>)>>, <<Dep(<<"b">>), Dep(<<"w">>)>>),
      Op("op3", <<Dep(<<"a">>), Opt(<<"b">>)>>, <<Dep(<<"y">>), Dep(<<"w">>)>>),
      Op("op4", <<Dep(<<"r", "k">>)>>, <<Dep(<<"y">>), Dep(<<"v">>)>>),
      Op("op5", <<Dep(<<"x">>)>>, <<Dep(<<"r", "k", "m">>)>>) }

\* operations over sub-document chains: siblings c/d and c/e under one root,
\* a chain three documents deep, and an operation that needs both siblings
ChainCatalogue ==
    { Op("op6", <<Dep(<<"x">>)>>, <<Dep(<<"c", "d">>), Dep(<<"c", "e">>)>>),
      Op("op7", <<Dep(<<"c", "d">>)>>, <<Dep(<<"y">>)>>),
      Op("op8", <<Dep(<<"c", "e">>)>>, <<Dep(<<"w">>)>>),
      Op("op9", <<Dep(<<"x">>)>>, <<Dep(<<"c", "d", "f">>)>>),
      Op("op10", <<Dep(<<"c", "d", "f">>)>>, <<Dep(<<"v">>)>>),
      Op("op13", <<Dep(<<"c", "d">>), Dep(<<"c", "e">>)>>, <<Dep(<<"y">>)>>) }

\* an operation whose only need is optional, and operations that need (one
\* of them optionally) a whole document whose sub-documents other operations
\* need or provide
MoreCatalogue ==
    { Op("op11", <<Opt(<<"x">>)>>, <<Dep(<<"a">>)>>),
      Op("op12", <<Dep(<<"c">>)>>, <<Dep(<<"w">>)>>),
      Op("op14", <<Opt(<<"c">>)>>, <<Dep(<<"v">>)>>) }

AllOperations == Catalogue \cup ChainCatalogue \cup MoreCatalogue

OperationNames == {op.name : op \in AllOperations}

\* isinstance(node, Operation)
IsOperation(n) == n \in OperationNames

\* the operation of the catalogue with the given name
OperationNamed(name) == CHOOSE op \in AllOperations : op.name = name

\* every data name a caller may use, in Python's string order ("/" sorts before letters)
SortedNames == <<"a", "b", "c", "c/d", "c/d/f", "c/e", "q", "r", "r/k", "r/k/m", "v", "w", "x", "y">>

\* a < b for strings
StrLess(a, b) == IndexOf(SortedNames, a) < IndexOf(SortedNames, b)

\* sorted(names): insertion sort
RECURSIVE InsertSorted(_, _)
InsertSorted(sorted, x) ==
    IF sorted = <<>> THEN <<x>>
    ELSE IF StrLess(x, Head(sorted)) THEN <<x>> \o sorted
    ELSE <<Head(sorted)>> \o InsertSorted(Tail(sorted), x)
RECURSIVE sorted(_)
sorted(names) == IF names = <<>> THEN <<>> ELSE InsertSorted(sorted(SubSeq(names, 1, Len(names) - 1)), names[Len(names)])

\* node predicates a caller may pass: the operations each rejects and those it
\* raises on
Predicates ==
    { [id |-> "no_op2", rejects |-> {"op2"}, raises |-> {}] }

---------------------------------------------------------------------------
(* collect_requirements and Network.__init__                               *)

\* _optionalized: is data optional on every edge leaving it
AllOptional(graph, data) == \A e \in out_edges(graph, data) : e \in graph.optional

optionalized(graph, data) == [name |-> data, optional |-> AllOptional(graph, data)]

RECURSIVE Concat(_)
Concat(seqs) == IF seqs = <<>> THEN <<>> ELSE Head(seqs) \o Concat(Tail(seqs))

Names(deps) == [i \in DOMAIN deps |-> deps[i].name]

\* collect_requirements(graph): (needs, provides), insertion-ordered sets
collect_requirements(graph, operations) ==
    [needs |-> iset(Concat([i \in DOMAIN operations |-> [j \in DOMAIN operations[i].needs |-> optionalized(graph, DepName(operations[i].needs[j]))]])),
     provides |-> iset(Concat([i \in DOMAIN operations |-> ProvideNames(operations[i])]))]

\* Network(*operations), for operations of distinct names
Network(operations) ==
    LET graph == AppendOperations(EmptyGraph, operations)
        reqs == collect_requirements(graph, operations)
    IN [ops |-> operations, graph |-> graph, needs |-> reqs.needs, provides |-> reqs.provides]

---------------------------------------------------------------------------
(* unsatisfied_operations                                                  *)

\* one node of the sorted dag.  st = [ok_data, op_satisfaction, unsatisfied]
VisitNode(dag, st, node) ==
    IF IsOperation(node)
    THEN IF SuccSeq(dag, node) = <<>>
         THEN [st EXCEPT !.unsatisfied = Append(@, node)]
         ELSE LET real_needs == {e[1] : e \in {e \in in_edges(dag, node) : e \notin dag.optional}}
              IN IF real_needs \subseteq st.op_satisfaction[node]
                 THEN [st EXCEPT !.ok_data = UpdateWithChaindocs(dag, SuccSeq(dag, node), @)]
                 ELSE [st EXCEPT !.unsatisfied = Append(@, node)]
    ELSE IF node \in st.ok_data
         THEN [st EXCEPT !.op_satisfaction = [n \in NodeSet(dag) |-> IF n \in Successors(dag, node) THEN @[n] \cup {node} ELSE @[n]]]
         ELSE st

RECURSIVE VisitNodes(_, _, _)
VisitNodes(dag, st, sorted_nodes) ==
    IF sorted_nodes = <<>> THEN st ELSE VisitNodes(dag, VisitNode(dag, st, Head(sorted_nodes)), Tail(sorted_nodes))

\* ok_data = set(); ok_data.update(yield_chaindocs(dag, inputs, ok_data))
SeedOkData(dag, inputs) == UpdateWithChaindocs(dag, inputs, {})

\* unsatisfied_operations(dag, inputs), visiting the nodes in the order sorted_nodes
UnsatisfiedInOrder(dag, inputs, sorted_nodes) ==
    VisitNodes(dag,
               [ok_data |-> SeedOkData(dag, inputs),
                op_satisfaction |-> [n \in NodeSet(dag) |-> {}],
                unsatisfied |-> <<>>],
               sorted_nodes).unsatisfied

unsatisfied_operations(dag, inputs, nx_sort) == UnsatisfiedInOrder(dag, inputs, topological_sort(dag, nx_sort))

---------------------------------------------------------------------------
(* Network._prune_graph                                                    *)

\* an optional collection of names: Python's None, or a tuple of names
NotGiven == [given |-> FALSE, names |-> <<>>]
Given(names) == [given |-> TRUE, names |-> names]

\* no predicate (None)
NoPredicate == [id |-> "None", rejects |-> {}, raises |-> {}]

\* iteration order of a Python set of nodes under the process's hash seed:
\* unrelated to insertion order (seed 0 stands for an order that happens to
\* agree with it, any other seed for one that does not)
SetOrder(hash_seed, g, S) == IF hash_seed = 0 THEN InNodeOrder(g, S) ELSE Reverse(InNodeOrder(g, S))

\* g.subgraph(keep).copy() for a set keep.  The copy lists the nodes as the
\* subgraph view iterates them: in the order of g when at least half of g's
\* nodes are kept, in the iteration order of the set keep otherwise.
SubgraphCopy(hash_seed, g, keep) ==
    LET kept == keep \cap NodeSet(g)
    IN CopyWithNodes(g, IF 2 * Cardinality(kept) < Len(g.nodes) THEN SetOrder(hash_seed, g, kept) ELSE InNodeOrder(g, kept))

\* _apply_graph_predicate: the operations the predicate rejects are removed
apply_graph_predicate(graph, predicate) ==
    remove_nodes_from(graph, {n \in NodeSet(graph) : IsOperation(n) /\ n \in predicate.rejects})

\* does the predicate raise on an operation of the graph
PredicateRaises(graph, predicate) == \E n \in NodeSet(graph) : IsOperation(n) /\ n \in predicate.raises

\* the edges into the given inputs are left in place
KeepInputEdges(broken_dag, inputs) == broken_dag

\* break the incoming non-subdoc edges of every given input
RECURSIVE BreakInputEdges(_, _)
BreakInputEdges(broken_dag, inputs) ==
    IF inputs = <<>> THEN broken_dag
    ELSE BreakInputEdges(remove_edges_from(broken_dag, {e \in in_edges(broken_dag, Head(inputs)) : e \notin broken_dag.subdoc}), Tail(inputs))

\* no pruning by the asked outputs: every node is kept
EndingAnywhere(dag, outputs) == NodeSet(dag)

\* ending_in_outputs: the doc chains of the outputs and all their ancestors;
\* the set is the stop set of the chain traversal and grows as it is filled
EndingInOutputs(dag, outputs) ==
    yield_chained_docs(ChainBoth, dag, outputs, [out |-> <<>>, stop |-> {}],
                       [d \in NodeSet(dag) |-> Ancestors(dag, d) \cup {d}]).stop

\* the inputs taken as satisfied (names, in order)
SatisfiedInputs(net, inputs, outputs) ==
    IF ~inputs.given /\ ~outputs.given THEN Names(net.needs)
    ELSE IF ~inputs.given THEN FilterSeq(Names(net.needs), Range(Names(net.needs)) \ Range(outputs.names))
    ELSE FilterSeq(iset(inputs.names), NodeSet(net.graph))

\* iset(outputs) - dag.nodes
UnknownOutputs(net, outputs) == FilterSeq(iset(outputs.names), Range(outputs.names) \ NodeSet(net.graph))

\* broken_dag = dag.copy() after the removals made in it: the predicate
\* applied and the input edges broken
BrokenCopy(net, inputs, predicate) ==
    LET dag == net.graph
        ins == IF inputs.given THEN FilterSeq(iset(inputs.names), NodeSet(dag)) ELSE <<>>
        b1 == copy(dag)
        b2 == IF predicate # NoPredicate THEN apply_graph_predicate(b1, predicate) ELSE b1
    IN BreakInputEdges(b2, ins)

\* the broken dag: predicate applied, input edges broken, then restricted to
\* what ends in the outputs
BrokenDag(net, inputs, outputs, predicate, hash_seed) ==
    LET dag == net.graph
        outs == IF ~inputs.given /\ ~outputs.given THEN Given(net.provides) ELSE outputs
        b3 == BrokenCopy(net, inputs, predicate)
    IN IF outs.given THEN SubgraphCopy(hash_seed, b3, EndingInOutputs(dag, outs.names)) ELSE b3

\* self.graph once _prune_graph has returned pruned_dag: the removals made in
\* broken_dag and in pruned_dag change the network's graph only if one of
\* them is the network's own graph object
GraphAfterPrune(net, inputs, predicate, pruned_dag) ==
    IF pruned_dag.id = net.graph.id THEN pruned_dag
    ELSE IF copy(net.graph).id = net.graph.id THEN BrokenCopy(net, inputs, predicate)
    ELSE net.graph

\* pruned_dag: the network's graph on the nodes of the broken dag less the
\* unsatisfied operations, isolated nodes cleaned
PrunedDag(net, broken_dag, unsatisfied, hash_seed) ==
    LET sub == SubgraphCopy(hash_seed, net.graph, NodeSet(broken_dag) \ Range(unsatisfied))
    IN remove_nodes_from(sub, isolates(sub))

\* an unknown-outputs error that names every asked output, not the absent ones
PruneErrorNamingAsked(net, inputs, outputs, predicate) ==
    IF ~(~inputs.given /\ ~outputs.given) /\ outputs.names # <<>> /\ UnknownOutputs(net, outputs) # <<>>
    THEN [err |-> "Unknown output nodes", unknown |-> iset(outputs.names)]
    ELSE IF predicate # NoPredicate /\ PredicateRaises(net.graph, predicate)
    THEN [err |-> "Node-predicate failed", unknown |-> <<>>]
    ELSE [err |-> None, unknown |-> <<>>]

\* unknown inputs are an error, as unknown outputs are
PruneErrorOnUnknownInputs(net, inputs, outputs, predicate) ==
    IF inputs.given /\ Range(inputs.names) \ NodeSet(net.graph) # {}
    THEN [err |-> "Unknown input nodes", unknown |-> FilterSeq(iset(inputs.names), Range(inputs.names) \ NodeSet(net.graph))]
    ELSE IF ~(~inputs.given /\ ~outputs.given) /\ outputs.names # <<>> /\ UnknownOutputs(net, outputs) # <<>>
    THEN [err |-> "Unknown output nodes", unknown |-> UnknownOutputs(net, outputs)]
    ELSE IF predicate # NoPredicate /\ PredicateRaises(net.graph, predicate)
    THEN [err |-> "Node-predicate failed", unknown |-> <<>>]
    ELSE [err |-> None, unknown |-> <<>>]

\* what _prune_graph raises, if anything: unknown outputs are checked first,
\* then the predicate is applied
PruneError(net, inputs, outputs, predicate) ==
    IF ~(~inputs.given /\ ~outputs.given) /\ outputs.names # <<>> /\ UnknownOutputs(net, outputs) # <<>>
    THEN [err |-> "Unknown output nodes", unknown |-> UnknownOutputs(net, outputs)]
    ELSE IF predicate # NoPredicate /\ PredicateRaises(net.graph, predicate)
    THEN [err |-> "Node-predicate failed", unknown |-> <<>>]
    ELSE [err |-> None, unknown |-> <<>>]

\* the end of _prune_graph: the resolved needs and provides of the pruned dag
PruneResult(net, inputs, outputs, satisfied_inputs, pruned_dag) ==
    LET both_none == ~inputs.given /\ ~outputs.given
        kept_inputs == FilterSeq(satisfied_inputs, NodeSet(pruned_dag))
        needs == iset([i \in DOMAIN kept_inputs |-> optionalized(pruned_dag, kept_inputs[i])])
        provides == IF both_none \/ outputs.given
                    THEN iset(FilterSeq(IF both_none THEN net.provides ELSE outputs.names, NodeSet(pruned_dag)))
                    ELSE FilterSeq(net.provides, NodeSet(pruned_dag) \ Range(Names(needs)))
    IN [dag |-> pruned_dag, needs |-> needs, provides |-> provides]

\* _prune_graph from the broken dag on: the unsatisfied operations are
\* dropped from it
PruneBroken(net, inputs, outputs, satisfied_inputs, broken_dag, env) ==
    PruneResult(net, inputs, outputs, satisfied_inputs,
                PrunedDag(net, broken_dag, unsatisfied_operations(broken_dag, satisfied_inputs, env.nx_sort), env.hash_seed))

\* _prune_graph when it does not raise: [dag, needs, provides]
prune_graph(net, inputs, outputs, predicate, env) ==
    PruneBroken(net, inputs, outputs, SatisfiedInputs(net, inputs, outputs),
                BrokenDag(net, inputs, outputs, predicate, env.hash_seed), env)

---------------------------------------------------------------------------
(* Network._build_execution_steps                                          *)

\* every eviction is appended, also when the last step is the same dep
append_eviction(steps, dep) == Append(steps, dep)

\* add_eviction(dep): skipped when the last step is the same dep
add_eviction(steps, dep) == IF steps # <<>> /\ steps[Len(steps)] = dep THEN steps ELSE Append(steps, dep)

\* who uses a doc chain: the ends of its non-subdoc edges
NeedUsers(pruned_dag, need_chain) ==
    {e[2] : e \in {e \in EdgeSet(pruned_dag) : e[1] \in need_chain /\ e \notin pruned_dag.subdoc}}

\* EVICT(1) without the look at the future users of the need
RECURSIVE EvictNeedsUsedLater(_, _, _, _, _)
EvictNeedsUsedLater(pruned_dag, outputs, future_nodes, needs, steps) ==
    IF needs = <<>> THEN steps
    ELSE LET need_chain == yield_also_chaindocs(pruned_dag, Head(needs))
         IN EvictNeedsUsedLater(pruned_dag, outputs, future_nodes, Tail(needs),
                                IF need_chain \cap outputs # {} THEN steps
                                ELSE add_eviction(steps, root_doc(pruned_dag, Head(needs))))

\* EVICT(1) that looks for the need itself among the outputs, not for its chain
RECURSIVE EvictNeedsNotAsked(_, _, _, _, _)
EvictNeedsNotAsked(pruned_dag, outputs, future_nodes, needs, steps) ==
    IF needs = <<>> THEN steps
    ELSE LET need_chain == yield_also_chaindocs(pruned_dag, Head(needs))
         IN EvictNeedsNotAsked(pruned_dag, outputs, future_nodes, Tail(needs),
                               IF Head(needs) \in outputs THEN steps
                               ELSE IF NeedUsers(pruned_dag, need_chain) \cap future_nodes = {} THEN add_eviction(steps, root_doc(pruned_dag, Head(needs)))
                               ELSE steps)

\* EVICT(1): the needs of op that nothing asks for or uses later
RECURSIVE EvictNeeds(_, _, _, _, _)
EvictNeeds(pruned_dag, outputs, future_nodes, needs, steps) ==
    IF needs = <<>> THEN steps
    ELSE LET need_chain == yield_also_chaindocs(pruned_dag, Head(needs))
         IN EvictNeeds(pruned_dag, outputs, future_nodes, Tail(needs),
                       IF need_chain \cap outputs # {} THEN steps
                       ELSE IF NeedUsers(pruned_dag, need_chain) \cap future_nodes = {} THEN add_eviction(steps, root_doc(pruned_dag, Head(needs)))
                       ELSE steps)

\* EVICT(2): the provides of op that were pruned
RECURSIVE EvictPrunedProvides(_, _, _)
EvictPrunedProvides(pruned_dag, provides, steps) ==
    IF provides = <<>> THEN steps
    ELSE EvictPrunedProvides(pruned_dag, Tail(provides),
                             IF ~HasNode(pruned_dag, Head(provides)) THEN add_eviction(steps, root_doc(pruned_dag, Head(provides))) ELSE steps)

RECURSIVE AddSteps(_, _, _, _, _, _)
AddSteps(net, pruned_dag, outputs, ordered_nodes, i, steps) ==
    IF i > Len(ordered_nodes) THEN steps
    ELSE LET op == ordered_nodes[i]
         IN IF ~IsOperation(op) THEN AddSteps(net, pruned_dag, outputs, ordered_nodes, i + 1, steps)
            ELSE LET future_nodes == {ordered_nodes[j] : j \in (i + 1)..Len(ordered_nodes)}
                     s1 == EvictNeeds(pruned_dag, outputs, future_nodes, PredSeq(pruned_dag, op), Append(steps, op))
                     s2 == EvictPrunedProvides(pruned_dag, SuccSeq(net.graph, op), s1)
                 IN AddSteps(net, pruned_dag, outputs, ordered_nodes, i + 1, s2)

\* _build_execution_steps(pruned_dag, inputs, outputs); outputs is a tuple here
build_execution_steps(net, pruned_dag, outputs, skip_evictions) ==
    LET ordered_nodes == topo_sort_nodes(pruned_dag)
    IN IF outputs = <<>> \/ skip_evictions
       THEN FilterSeq(ordered_nodes, OperationNames)
       ELSE AddSteps(net, pruned_dag, yield_chaindocs(pruned_dag, outputs), ordered_nodes, 1, <<>>)

---------------------------------------------------------------------------
(* Network.compile                                                         *)

\* a cache key that keeps the caller's order of inputs and outputs
UnsortedKey(inputs, outputs, predicate) == [inputs |-> inputs, outputs |-> outputs, predicate |-> predicate]

\* the stable cache key: inputs and outputs sorted (or None), the predicate
\* (None when falsy)
CacheKey(inputs, outputs, predicate) ==
    [inputs |-> IF inputs.given THEN Given(sorted(inputs.names)) ELSE NotGiven,
     outputs |-> IF outputs.given THEN Given(sorted(outputs.names)) ELSE NotGiven,
     predicate |-> predicate]

\* what compile raises on a cache miss, if anything
CompileError(net, key) == PruneError(net, key.inputs, key.outputs, key.predicate)

\* ExecutionPlan(self, needs, provides, pruned_dag, tuple(steps), asked_outs)
ExecutionPlan(net, pruned, key, skip_evictions) ==
    [err |-> None,
     unknown |-> <<>>,
     needs |-> pruned.needs,
     provides |-> pruned.provides,
     dag |-> pruned.dag,
     steps |-> build_execution_steps(net, pruned.dag, key.outputs.names, skip_evictions),
     asked_outs |-> key.outputs.given]

\* the ExecutionPlan compile builds on a cache miss that raises nothing
NewPlan(net, key, skip_evictions, env) ==
    ExecutionPlan(net, prune_graph(net, key.inputs, key.outputs, key.predicate, env), key, skip_evictions)

---------------------------------------------------------------------------
(* The state machine: one network, the skip_evictions configuration, the   *)
(* plan cache of the network, and the last compile call with its outcome.  *)

VARIABLES
    net,             \* the Network under test (never changes after construction)
    env,             \* the run's environment: the hash seed of the Python process (it
                     \* fixes set iteration order) and the installed networkx sort
    skip_evictions,  \* config._skip_evictions (TRUE when truthy)
    cached_plans,    \* Network._cached_plans: cache key -> plan
    ret,             \* the last compile call and what it returned or raised
    twin,            \* a second network built from the same operations in the same
                     \* order, in a run of its own: its environment and its plan cache
    threads,         \* the threads inside compile: where each is, its request, the
                     \* skip_evictions of its context, and the plan it holds
    abort            \* config._abort: the global abort-run flag

vars == <<net, env, skip_evictions, cached_plans, ret, twin, threads, abort>>

\* bounds of the model
MaxOps == 3
MaxNames == 2
MaxPlans == 1
MaxCallPlans == 2
MaxThreads == 2

HashSeeds == {0, 1}

\* the environments a run may have
Envs == [hash_seed : HashSeeds, nx_sort : NxSorts]

\* sequences of at most n distinct elements of S
RECURSIVE DistinctSeqs(_, _)
DistinctSeqs(S, n) ==
    IF n = 0 THEN {<<>>}
    ELSE LET shorter == DistinctSeqs(S, n - 1)
         IN shorter \cup {Append(q, x) : <<q, x>> \in {<<q, x>> \in shorter \X S : Len(q) = n - 1 /\ ~InSeq(q, x)}}

\* the operation lists networks are built from: distinct operations in any order
OperationLists == DistinctSeqs(Catalogue, MaxOps) \ {<<>>}

\* the acyclic networks of the model
Networks == {n \in {Network(operations) : operations \in OperationLists} : IsDag(n.graph)}

\* names a caller passes as inputs and asks as outputs ("q" is no node of any network)
InputNames == {"x", "a", "r"}
OutputNames == {"y", "w", "a", "q"}

\* a compile request: inputs and outputs (None, or names in the caller's order)
\* and a predicate
Request(inputs, outputs, predicate) == [inputs |-> inputs, outputs |-> outputs, predicate |-> predicate]
Collections(names) == {NotGiven} \cup {Given(q) : q \in DistinctSeqs(names, MaxNames)}
Requests ==
    {Request(i, o, p) : <<i, o, p>> \in Collections(InputNames) \X Collections(OutputNames) \X ({NoPredicate} \cup Predicates)}

NoCall == [op |-> "init"]

\* no second network
NoTwin == [env |-> [hash_seed |-> 0, nx_sort |-> "stack"], cached_plans |-> << >>]

Init ==
    /\ net \in Networks
    /\ env \in Envs
    /\ skip_evictions = FALSE
    /\ cached_plans = << >>
    /\ ret = NoCall
    /\ twin = NoTwin
    /\ threads = << >>
    /\ abort = FALSE

\* set_skip_evictions(enabled)
SetSkipEvictions(enabled) ==
    /\ skip_evictions' = enabled
    /\ UNCHANGED <<net, env, cached_plans, ret, twin, threads, abort>>

\* a cache that holds the latest plan only
StoreLatestOnly(cache, cache_key, plan) == [k \in {cache_key} |-> plan]

\* self._cached_plans[cache_key] = plan
StorePlan(cache, cache_key, plan) ==
    [k \in DOMAIN cache \cup {cache_key} |-> IF k = cache_key THEN plan ELSE cache[k]]

\* a compile that stores what it raised under the key of the call
CompileStoringErrors(inputs, outputs, predicate) ==
    LET cache_key == CacheKey(inputs, outputs, predicate)
    IN /\ IF cache_key \in DOMAIN cached_plans
          THEN UNCHANGED <<cached_plans, net>>
          ELSE IF CompileError(net, cache_key).err # None
          THEN /\ cached_plans' = StorePlan(cached_plans, cache_key, CompileError(net, cache_key))
               /\ UNCHANGED net
          ELSE /\ cached_plans' = StorePlan(cached_plans, cache_key, NewPlan(net, cache_key, skip_evictions, env))
               /\ net' = [net EXCEPT !.graph = GraphAfterPrune(net, cache_key.inputs, cache_key.predicate, cached_plans'[cache_key].dag)]
       /\ UNCHANGED <<env, skip_evictions, twin, threads, abort>>

\* Network.compile(inputs, outputs, predicate): its effect on the plan cache
\* and on the network
Compile(inputs, outputs, predicate) ==
    LET cache_key == CacheKey(inputs, outputs, predicate)
    IN /\ IF cache_key \in DOMAIN cached_plans \/ CompileError(net, cache_key).err # None
          THEN UNCHANGED <<cached_plans, net>>
          ELSE /\ cached_plans' = StorePlan(cached_plans, cache_key, NewPlan(net, cache_key, skip_evictions, env))
               /\ net' = [net EXCEPT !.graph = GraphAfterPrune(net, cache_key.inputs, cache_key.predicate, cached_plans'[cache_key].dag)]
       /\ UNCHANGED <<env, skip_evictions, twin, threads, abort>>

\* the call as its caller sees it once compile is through: the arguments, the
\* configuration at the call, whether the cache was hit, and the plan
\* returned (the cached one, which a miss has just stored) or the error raised
CompileReturn(inputs, outputs, predicate) ==
    LET cache_key == CacheKey(inputs, outputs, predicate)
    IN [op |-> "compile", inputs |-> inputs, outputs |-> outputs, predicate |-> predicate,
        skip |-> skip_evictions,
        hit |-> cache_key \in DOMAIN cached_plans,
        plan |-> IF cache_key \in DOMAIN cached_plans' THEN cached_plans'[cache_key] ELSE CompileError(net, cache_key)]

\* a compile call that fills the plan cache (calls that leave it alone change
\* nothing in this view)
CompileNew ==
    /\ Cardinality(DOMAIN cached_plans) < MaxPlans
    /\ \E r \in Requests : Compile(r.inputs, r.outputs, r.predicate)
    /\ UNCHANGED ret

Next ==
    \/ \E enabled \in BOOLEAN : SetSkipEvictions(enabled)
    \/ CompileNew

\* the plans of every network of the model, for every request
Spec == Init /\ [][Next]_vars

---------------------------------------------------------------------------
(* The compile calls on one network, as their caller sees them.            *)

\* the network of the calls: op1 and op2 feed op3
CallOperations == <<OperationNamed("op1"), OperationNamed("op2"), OperationNamed("op3")>>

\* the requests of the calls: inputs and outputs are None, or MaxNames names in
\* any order
CallInputNames == {"x", "a"}
CallOutputNames == {"y", "w", "q"}
CallCollections(names) == {c \in Collections(names) : c.given => Len(c.names) = MaxNames}
CallRequests ==
    {Request(i, o, p) : <<i, o, p>> \in CallCollections(CallInputNames) \X CallCollections(CallOutputNames) \X ({NoPredicate} \cup Predicates)}

InitCalls ==
    /\ net = Network(CallOperations)
    /\ env \in Envs
    /\ skip_evictions = FALSE
    /\ cached_plans = << >>
    /\ ret = NoCall
    /\ twin = NoTwin
    /\ threads = << >>
    /\ abort = FALSE

\* a compile call: its effect on the cache and what it returns to the caller
Call(r) ==
    /\ Cardinality(DOMAIN cached_plans \cup {CacheKey(r.inputs, r.outputs, r.predicate)}) <= MaxCallPlans
    /\ Compile(r.inputs, r.outputs, r.predicate)
    /\ ret' = CompileReturn(r.inputs, r.outputs, r.predicate)

NextCalls ==
    \/ \E enabled \in BOOLEAN : SetSkipEvictions(enabled)
    \/ \E r \in CallRequests : Call(r)

SpecCalls == InitCalls /\ [][NextCalls]_vars

---------------------------------------------------------------------------
(* Networks over sub-document chains: compile calls on the networks built  *)
(* from the chain operations.                                              *)

ChainNetworks ==
    {n \in {Network(operations) : operations \in DistinctSeqs(ChainCatalogue, MaxOps) \ {<<>>}} : IsDag(n.graph)}

ChainInputNames == {"x", "c/d"}
ChainOutputNames == {"y", "w", "v", "c/e"}
ChainRequests ==
    {Request(i, o, NoPredicate) : <<i, o>> \in Collections(ChainInputNames) \X Collections(ChainOutputNames)}

InitChains ==
    /\ net \in ChainNetworks
    /\ env \in Envs
    /\ skip_evictions = FALSE
    /\ cached_plans = << >>
    /\ ret = NoCall
    /\ twin = NoTwin
    /\ threads = << >>
    /\ abort = FALSE

ChainCompileNew ==
    /\ Cardinality(DOMAIN cached_plans) < MaxPlans
    /\ \E r \in ChainRequests : Compile(r.inputs, r.outputs, r.predicate)
    /\ UNCHANGED ret

NextChains ==
    \/ \E enabled \in BOOLEAN : SetSkipEvictions(enabled)
    \/ ChainCompileNew

SpecChains == InitChains /\ [][NextChains]_vars

---------------------------------------------------------------------------
(* Two runs: the network, and a second network built from the same         *)
(* operation list in the same order by another Python process, which is    *)
(* asked to compile what the first network compiled.  The networks have    *)
(* MaxOps operations; skip_evictions keeps its default in both runs.       *)

\* the networks built twice: MaxOps operations, added in the order of their names
NameOrder == <<"op1", "op2", "op3", "op4", "op5">>

TwinNetworks ==
    {n \in Networks : /\ Len(n.ops) = MaxOps
                      /\ \A i \in 1..(MaxOps - 1) :
                             IndexOf(NameOrder, n.ops[i].name) < IndexOf(NameOrder, n.ops[i + 1].name)}

InitTwin ==
    /\ net \in TwinNetworks
    /\ env \in Envs
    /\ skip_evictions = FALSE
    /\ cached_plans = << >>
    /\ ret = NoCall
    /\ twin \in {[env |-> e, cached_plans |-> << >>] : e \in Envs}
    /\ threads = << >>
    /\ abort = FALSE

\* Network.compile on the second network, for a request the first has compiled
TwinCompile(inputs, outputs, predicate) ==
    LET cache_key == CacheKey(inputs, outputs, predicate)
    IN /\ cache_key \in DOMAIN cached_plans
       /\ cache_key \notin DOMAIN twin.cached_plans
       /\ twin' = [twin EXCEPT !.cached_plans = [k \in {cache_key} |-> NewPlan(net, cache_key, skip_evictions, twin.env)]]
       /\ UNCHANGED <<net, env, skip_evictions, cached_plans, ret, threads, abort>>

NextTwin ==
    \/ CompileNew
    \/ \E k \in DOMAIN cached_plans : TwinCompile(k.inputs, k.outputs, k.predicate)

SpecTwin == InitTwin /\ [][NextTwin]_vars

---------------------------------------------------------------------------
(* Building a network: build_network (operation merging) and the check of  *)
(* Network.__init__ for operations added twice.  An item of the list given *)
(* to build_network is an operation, a NULL_OP or a nested pipeline with   *)
(* its operations; two operations are equal when their names are equal.    *)

FuncOp(op) == [kind |-> "op", op |-> op, ops |-> <<>>]
NULL_OP(name) == [kind |-> "NULL_OP", op |-> Op(name, <<>>, <<>>), ops |-> <<>>]
Pipeline(name, ops) == [kind |-> "Pipeline", op |-> Op(name, <<>>, <<>>), ops |-> ops]

\* Operation.__eq__ / __hash__ and NULL_OP.__eq__ / __hash__: by name
SameOperation(a, b) == a.op.name = b.op.name

\* a set kept as a dict overwrites: a later same-named operation replaces the earlier one
mapping_overwrite(merge_set, item) ==
    IF \E i \in DOMAIN merge_set : SameOperation(merge_set[i], item)
    THEN [i \in DOMAIN merge_set |-> IF SameOperation(merge_set[i], item) THEN item ELSE merge_set[i]]
    ELSE Append(merge_set, item)

\* a NULL_OP is not added to the merge set at all
add_unless_null(merge_set, item) ==
    IF item.kind = "NULL_OP" \/ \E i \in DOMAIN merge_set : SameOperation(merge_set[i], item)
    THEN merge_set ELSE Append(merge_set, item)

\* iset.add(item): appended unless an equal item is in the set already
iset_add(merge_set, item) ==
    IF \E i \in DOMAIN merge_set : SameOperation(merge_set[i], item) THEN merge_set ELSE Append(merge_set, item)

\* iset.update(items)
RECURSIVE iset_update(_, _)
iset_update(merge_set, items) ==
    IF items = <<>> THEN merge_set ELSE iset_update(iset_add(merge_set, Head(items)), Tail(items))

\* the loop of build_network over the given operations
RECURSIVE MergeOperations(_, _)
MergeOperations(merge_set, operations) ==
    IF operations = <<>> THEN merge_set
    ELSE MergeOperations(IF Head(operations).kind = "Pipeline"
                         THEN iset_update(merge_set, Head(operations).ops)
                         ELSE iset_add(merge_set, Head(operations)),
                         Tail(operations))

\* merge_set once the NULL_OPs are filtered out
WithoutNullOps(merge_set) ==
    LET kept == {merge_set[i] : i \in {i \in DOMAIN merge_set : merge_set[i].kind # "NULL_OP"}}
    IN FilterSeq(merge_set, kept)

\* build_network(operations), with no properties to convey: the operations
\* the network is constructed from
build_network(operations) ==
    LET merge_set == WithoutNullOps(MergeOperations(<<>>, operations))
    IN Network([i \in DOMAIN merge_set |-> merge_set[i].op])

\* dupes.remove(i), removing the last equal element instead of the first
RECURSIVE list_remove_last(_, _)
list_remove_last(dupes, item) ==
    IF dupes = <<>> THEN <<>>
    ELSE IF dupes[Len(dupes)].name = item.name THEN SubSeq(dupes, 1, Len(dupes) - 1)
    ELSE Append(list_remove_last(SubSeq(dupes, 1, Len(dupes) - 1), item), dupes[Len(dupes)])

\* dupes.remove(i): the first element equal to i is removed
RECURSIVE list_remove(_, _)
list_remove(dupes, item) ==
    IF dupes = <<>> THEN <<>>
    ELSE IF Head(dupes).name = item.name THEN Tail(dupes)
    ELSE <<Head(dupes)>> \o list_remove(Tail(dupes), item)

\* set(operations), listed as the set iterates: one operation per name (the
\* first added), in an order the hash seed decides
RECURSIVE FirstOfEachName(_, _)
FirstOfEachName(operations, seen) ==
    IF operations = <<>> THEN <<>>
    ELSE IF Head(operations).name \in seen THEN FirstOfEachName(Tail(operations), seen)
    ELSE <<Head(operations)>> \o FirstOfEachName(Tail(operations), seen \cup {Head(operations).name})
Uniques(operations, hash_seed) ==
    IF hash_seed = 0 THEN FirstOfEachName(operations, {}) ELSE Reverse(FirstOfEachName(operations, {}))

\* for i in uniques: dupes.remove(i)
RECURSIVE RemoveUniques(_, _)
RemoveUniques(dupes, uniques) ==
    IF uniques = <<>> THEN dupes ELSE RemoveUniques(list_remove(dupes, Head(uniques)), Tail(uniques))

\* the check of Network.__init__: the error it raises and the dupes it reports
NetworkError(operations, hash_seed) ==
    LET uniques == Uniques(operations, hash_seed)
    IN IF Len(operations) # Len(uniques)
       THEN [err |-> "Operations may only be added once", dupes |-> RemoveUniques(operations, uniques)]
       ELSE [err |-> None, dupes |-> <<>>]

\* the operations handed to build_network and to Network: op1 comes in two
\* variants of the same name; op6, op9 and op10 share sub-document prefixes
Variant == Op("op1", <<Dep(<<"x">>)>>, <<Dep(<<"b">>)>>)
BuildOperations ==
    {OperationNamed("op1"), Variant, OperationNamed("op2"), OperationNamed("op3"),
     OperationNamed("op6"), OperationNamed("op9"), OperationNamed("op10")}
BuildItems ==
    {FuncOp(op) : op \in BuildOperations}
        \cup {NULL_OP("op1"), NULL_OP("op3")}
        \cup {Pipeline("p1", <<FuncOp(Variant), FuncOp(OperationNamed("op2"))>>),
              Pipeline("p2", <<FuncOp(OperationNamed("op3")), FuncOp(OperationNamed("op1"))>>)}

\* sequences of at most n elements of S
RECURSIVE SeqsUpTo(_, _)
SeqsUpTo(S, n) ==
    IF n = 0 THEN {<<>>}
    ELSE LET shorter == SeqsUpTo(S, n - 1)
         IN shorter \cup {Append(q, x) : <<q, x>> \in {<<q, x>> \in shorter \X S : Len(q) = n - 1}}

InitBuild ==
    /\ net = Network(<<>>)
    /\ env \in Envs
    /\ skip_evictions = FALSE
    /\ cached_plans = << >>
    /\ ret = NoCall
    /\ twin = NoTwin
    /\ threads = << >>
    /\ abort = FALSE

\* net = build_network(*operations)
BuildNetworkCall(operations) ==
    /\ ret = NoCall
    /\ net' = build_network(operations)
    /\ ret' = [op |-> "build_network", operations |-> operations]
    /\ UNCHANGED <<env, skip_evictions, cached_plans, twin, threads, abort>>

\* net = Network(*operations)
NetworkCall(operations) ==
    /\ ret = NoCall
    /\ LET error == NetworkError(operations, env.hash_seed)
       IN /\ ret' = [op |-> "Network", operations |-> operations, err |-> error.err, dupes |-> error.dupes]
          /\ net' = IF error.err = None THEN Network(operations) ELSE net
    /\ UNCHANGED <<env, skip_evictions, cached_plans, twin, threads, abort>>

\* how many operations the given items hold, the nested pipelines' included
RECURSIVE FlatLength(_)
FlatLength(operations) ==
    IF operations = <<>> THEN 0
    ELSE (IF Head(operations).kind = "Pipeline" THEN Len(Head(operations).ops) ELSE 1)
             + FlatLength(Tail(operations))

NextBuild ==
    \/ \E operations \in {s \in SeqsUpTo(BuildItems, MaxOps) : FlatLength(s) <= MaxOps + 1} :
           BuildNetworkCall(operations)
    \/ \E operations \in SeqsUpTo(BuildOperations, MaxOps) : NetworkCall(operations)

SpecBuild == InitBuild /\ [][NextBuild]_vars

---------------------------------------------------------------------------
(* Pipeline.compute on the network of the calls, one statement at a time:  *)
(* compile, reset_abort, execute.  ret holds where the call is.  The abort *)
(* flag is set by abort_run, which the caller may call between computes    *)
(* and an operation may call while the plan executes.                      *)

\* compute passes named_inputs.keys() as inputs: always a collection
ComputeRequests ==
    {Request(i, o, p) : <<i, o, p>> \in {Given(<<>>), Given(<<"x">>)}
                                        \X {NotGiven, Given(<<"y">>), Given(<<"q">>)}
                                        \X ({NoPredicate} \cup Predicates)}

InitCompute ==
    /\ net = Network(CallOperations)
    /\ env \in Envs
    /\ skip_evictions = FALSE
    /\ cached_plans = << >>
    /\ ret = [op |-> "compute", pc |-> "idle", request |-> Request(Given(<<>>), NotGiven, NoPredicate), abort_before |-> FALSE]
    /\ twin = NoTwin
    /\ threads = << >>
    /\ abort \in BOOLEAN

\* abort_run()
AbortRun ==
    /\ ret.pc \in {"idle", "executing", "raised", "done", "aborted"}
    /\ abort' = TRUE
    /\ UNCHANGED <<net, env, skip_evictions, cached_plans, ret, twin, threads>>

\* compute(named_inputs, outputs, predicate) is called
ComputeStart(r) ==
    /\ ret.pc \in {"idle", "raised", "done", "aborted"}
    /\ ret' = [op |-> "compute", pc |-> "compiling", request |-> r, abort_before |-> abort]
    /\ UNCHANGED <<net, env, skip_evictions, cached_plans, twin, threads, abort>>

\* plan = net.compile(named_inputs.keys(), outputs, predicate): returns, or
\* raises out of compute
ComputeCompile ==
    /\ ret.pc = "compiling"
    /\ LET cache_key == CacheKey(ret.request.inputs, ret.request.outputs, ret.request.predicate)
       IN /\ Cardinality(DOMAIN cached_plans \cup {cache_key}) <= MaxCallPlans
          /\ Compile(ret.request.inputs, ret.request.outputs, ret.request.predicate)
          /\ ret' = [ret EXCEPT !.pc = IF cache_key \in DOMAIN cached_plans' THEN "compiled" ELSE "raised"]

\* the abort flag is left as it is
ComputeKeepAbort ==
    /\ ret.pc = "compiled"
    /\ ret' = [ret EXCEPT !.pc = "executing"]
    /\ UNCHANGED <<net, env, skip_evictions, cached_plans, twin, threads, abort>>

\* reset_abort(), after which plan.execute(...) is entered
ComputeResetAbort ==
    /\ ret.pc = "compiled"
    /\ abort' = FALSE
    /\ ret' = [ret EXCEPT !.pc = "executing"]
    /\ UNCHANGED <<net, env, skip_evictions, cached_plans, twin, threads>>

\* plan.execute(...) ends: with the solution, or aborted when the flag was set
ComputeExecute ==
    /\ ret.pc = "executing"
    /\ ret' = [ret EXCEPT !.pc = IF abort THEN "aborted" ELSE "done"]
    /\ UNCHANGED <<net, env, skip_evictions, cached_plans, twin, threads, abort>>

NextCompute ==
    \/ AbortRun
    \/ \E r \in ComputeRequests : ComputeStart(r)
    \/ ComputeCompile
    \/ ComputeResetAbort
    \/ ComputeExecute

SpecCompute == InitCompute /\ [][NextCompute]_vars

---------------------------------------------------------------------------
(* Threads calling compile on one network with equal cache keys.  A step   *)
(* of a thread is one access to the cache dictionary or the computation of *)
(* its plan; compile takes no lock.  skip_evictions is a context variable: *)
(* every thread reads the value of its own context.                        *)

Threads == 1..MaxThreads

\* the requests compile accepts on the network of the calls
AcceptedRequests ==
    {r \in CallRequests : CompileError(Network(CallOperations), CacheKey(r.inputs, r.outputs, r.predicate)).err = None}

\* a key that keeps the order the caller wrote the names in
RawKeyOf(r) == UnsortedKey(r.inputs, r.outputs, r.predicate)

\* the cache key compile computes for a request
KeyOf(r) == CacheKey(r.inputs, r.outputs, r.predicate)

InitThreads ==
    /\ net = Network(CallOperations)
    /\ env \in Envs
    /\ skip_evictions = FALSE
    /\ cached_plans = << >>
    /\ ret = NoCall
    /\ twin = NoTwin
    /\ threads \in {th \in [Threads -> [pc : {"lookup"}, request : AcceptedRequests, skip : BOOLEAN, hit : {FALSE}, plan : {None}]] :
                      \A t, u \in Threads :
                          CacheKey(th[t].request.inputs, th[t].request.outputs, th[t].request.predicate)
                              = CacheKey(th[u].request.inputs, th[u].request.outputs, th[u].request.predicate)}
    /\ abort = FALSE

\* `if cache_key in self._cached_plans: plan = self._cached_plans[cache_key]`
ThreadLookup(t) ==
    /\ threads[t].pc = "lookup"
    /\ threads' = [threads EXCEPT ![t] =
                     IF KeyOf(threads[t].request) \in DOMAIN cached_plans
                     THEN [threads[t] EXCEPT !.pc = "done", !.hit = TRUE, !.plan = cached_plans[KeyOf(threads[t].request)]]
                     ELSE [threads[t] EXCEPT !.pc = "compute"]]
    /\ UNCHANGED <<net, env, skip_evictions, cached_plans, ret, twin, abort>>

\* _prune_graph, _build_execution_steps and ExecutionPlan(...), outside any lock
ThreadCompute(t) ==
    /\ threads[t].pc = "compute"
    /\ threads' = [threads EXCEPT ![t] =
                     [threads[t] EXCEPT !.pc = "insert",
                                        !.plan = NewPlan(net, KeyOf(threads[t].request), threads[t].skip, env)]]
    /\ net' = [net EXCEPT !.graph = GraphAfterPrune(net, KeyOf(threads[t].request).inputs,
                                                     KeyOf(threads[t].request).predicate, threads'[t].plan.dag)]
    /\ UNCHANGED <<env, skip_evictions, cached_plans, ret, twin, abort>>

\* `self._cached_plans[cache_key] = plan`, then `return plan`
ThreadInsert(t) ==
    /\ threads[t].pc = "insert"
    /\ cached_plans' = StorePlan(cached_plans, KeyOf(threads[t].request), threads[t].plan)
    /\ threads' = [threads EXCEPT ![t] = [threads[t] EXCEPT !.pc = "done"]]
    /\ UNCHANGED <<net, env, skip_evictions, ret, twin, abort>>

NextThreads ==
    \E t \in Threads : ThreadLookup(t) \/ ThreadCompute(t) \/ ThreadInsert(t)

SpecThreads == InitThreads /\ [][NextThreads]_vars

---------------------------------------------------------------------------
(* Properties of the compiled plans.                                       *)

\* the plans compile has stored and returned
Plans == {cached_plans[k] : k \in DOMAIN cached_plans}

\* the operations among the steps of a plan, in order
StepOps(plan) == FilterSeq(plan.steps, OperationNames)

\* producer provides, through edges of the plan's dag, a need of consumer
Produces(plan, producer, consumer) ==
    \E d \in NodeSet(plan.dag) : <<producer, d>> \in EdgeSet(plan.dag) /\ <<d, consumer>> \in EdgeSet(plan.dag)

\* C1: in every plan compile returned on an acyclic network, every operation
\* of the steps comes strictly after every operation of the steps that
\* produces one of its needs through an edge of the pruned dag.
TopologicalSoundness ==
    \A plan \in Plans : \A producer, consumer \in Range(StepOps(plan)) :
        Produces(plan, producer, consumer) => IndexOf(plan.steps, producer) < IndexOf(plan.steps, consumer)

\* C1 happens: a plan whose steps hold a producer and the consumer it feeds
TopologicalSoundnessWitness ==
    \E plan \in Plans : \E producer, consumer \in Range(StepOps(plan)) : Produces(plan, producer, consumer)

\* the positions of a plan's steps holding an eviction, and those holding an
\* operation
EvictionPositions(plan) == {i \in DOMAIN plan.steps : ~IsOperation(plan.steps[i])}
OperationPositions(plan) == {j \in DOMAIN plan.steps : IsOperation(plan.steps[j])}

\* C2 as stated: for every Evict(d) at position i of a compiled plan's steps,
\* no operation at a later position has d among its needs or its provides,
\* and d is not an asked output.
EvictionSafetyAsStated ==
    \A k \in DOMAIN cached_plans : LET plan == cached_plans[k] IN
        \A i \in EvictionPositions(plan) :
            /\ plan.steps[i] \notin Range(k.outputs.names)
            /\ \A j \in OperationPositions(plan) : j > i =>
                   plan.steps[i] \notin Range(NeedNames(OperationNamed(plan.steps[j]))) \cup Range(ProvideNames(OperationNamed(plan.steps[j])))

\* C2, amended: for every Evict(d) at position i, d is not an asked output and
\* no operation at a later position has d among its needs; a later operation
\* has d among its provides only when d was pruned from the plan's dag, and
\* then d is evicted again right after that operation, before the next one.
EvictionSafety ==
    \A k \in DOMAIN cached_plans : LET plan == cached_plans[k] IN
        \A i \in EvictionPositions(plan) :
            /\ plan.steps[i] \notin Range(k.outputs.names)
            /\ \A j \in OperationPositions(plan) : j > i =>
                   /\ plan.steps[i] \notin Range(NeedNames(OperationNamed(plan.steps[j])))
                   /\ plan.steps[i] \in Range(ProvideNames(OperationNamed(plan.steps[j]))) =>
                          /\ ~HasNode(plan.dag, plan.steps[i])
                          /\ \E m \in EvictionPositions(plan) :
                                 /\ m > j
                                 /\ plan.steps[m] = plan.steps[i]
                                 /\ \A n \in OperationPositions(plan) : ~(j < n /\ n < m)

\* C2 happens: some data is evicted and an operation placed later provides it
EvictionSafetyWitness ==
    \E plan \in Plans : \E i \in EvictionPositions(plan), j \in OperationPositions(plan) :
        j > i /\ plan.steps[i] \in Range(ProvideNames(OperationNamed(plan.steps[j])))

\* no dependency path of the plan's dag orders the two operations
Unordered(plan, a, b) == a # b /\ a \notin Ancestors(plan.dag, b) /\ b \notin Ancestors(plan.dag, a)

\* C4: in the steps of every compiled plan, of two operations of the pruned
\* dag that no dependency path orders, the one inserted earlier into the
\* network comes first, whatever subset of the network the pruning kept.
InsertionOrderTieBreak ==
    \A plan \in Plans : \A a, b \in Range(StepOps(plan)) :
        Unordered(plan, a, b) /\ IndexOf(net.graph.nodes, a) < IndexOf(net.graph.nodes, b)
            => IndexOf(plan.steps, a) < IndexOf(plan.steps, b)

\* C5: two networks built from the same operation list in the same order,
\* each asked to compile the same (inputs, outputs, predicate), produce plans
\* whose steps are identical element by element.
Determinism ==
    \A k \in DOMAIN cached_plans \cap DOMAIN twin.cached_plans :
        cached_plans[k].steps = twin.cached_plans[k].steps

\* docs with their sub-document chain ancestors / descendants in the
\* network graph
RECURSIVE ChainUp(_, _)
ChainUp(g, docs) ==
    LET parents == {e[1] : e \in {e \in g.subdoc : e[2] \in docs}}
    IN IF parents \subseteq docs THEN docs ELSE ChainUp(g, docs \cup parents)
RECURSIVE ChainDown(_, _)
ChainDown(g, docs) ==
    LET children == {e[2] : e \in {e \in g.subdoc : e[1] \in docs}}
    IN IF children \subseteq docs THEN docs ELSE ChainDown(g, docs \cup children)

\* the inputs I of a cached plan: the names given that the graph knows or,
\* when inputs is None, the needs of the network the pruning takes as given
InputsOf(k) == Range(SatisfiedInputs(net, k.inputs, k.outputs))

\* the non-optional needs of an operation
CompulsoryNeeds(name) ==
    {DepName(OperationNamed(name).needs[i]) : i \in {i \in DOMAIN OperationNamed(name).needs : ~is_optional(OperationNamed(name).needs[i])}}

\* what the operations placed before position j provide
ProvidedBefore(plan, j) ==
    UNION {Range(ProvideNames(OperationNamed(plan.steps[i]))) : i \in {i \in OperationPositions(plan) : i < j}}

\* docs with all their sub-document chain relatives
ChainDocs(g, docs) == ChainUp(g, docs) \cup ChainDown(g, docs)

\* C6: every operation in the steps of a compiled plan has each of its
\* non-optional needs present as an input in I, in the sub-document chain of
\* an input in I, or as a provide (or in the chain of a provide) of an
\* operation placed earlier in the steps.
Satisfaction ==
    \A k \in DOMAIN cached_plans : LET plan == cached_plans[k] IN
        \A j \in OperationPositions(plan) : \A need \in CompulsoryNeeds(plan.steps[j]) :
            \/ need \in ChainDocs(net.graph, InputsOf(k))
            \/ need \in ChainDocs(net.graph, ProvidedBefore(plan, j))

\* what is available after running the operations ops in order from the data
\* avail: an operation runs when its non-optional needs are available
RECURSIVE Run(_, _)
Run(ops, avail) ==
    IF ops = <<>> THEN avail
    ELSE Run(Tail(ops),
             IF CompulsoryNeeds(Head(ops)) \subseteq avail
             THEN avail \cup ChainDocs(net.graph, Range(ProvideNames(OperationNamed(Head(ops)))))
             ELSE avail)

\* the asked outputs still produced when operation removed is taken out of
\* the steps of the plan cached under k
ProducedWithout(k, removed) ==
    Range(k.outputs.names) \cap Run(FilterSeq(cached_plans[k].steps, OperationNames \ {removed}), ChainDocs(net.graph, InputsOf(k)))

\* the keys of the plans compiled with asked outputs
AskedKeys == {k \in DOMAIN cached_plans : k.outputs.given /\ k.outputs.names # <<>>}

\* C7 as stated: for every plan compiled with asked outputs O, removing any
\* single operation from the steps leaves at least one output of O no longer
\* produced.
MinimalityAsStated ==
    \A k \in AskedKeys : \A removed \in Range(StepOps(cached_plans[k])) :
        ProducedWithout(k, removed) # Range(k.outputs.names)

\* C7, amended: every operation in the steps of a plan compiled with asked
\* outputs O has a dependency path in the network graph to an output of O or
\* to a document of its sub-document chain; the plan need not be minimal.
Minimality ==
    \A k \in AskedKeys : \A op \in Range(StepOps(cached_plans[k])) :
        \E out \in ChainDocs(net.graph, Range(k.outputs.names)) : op \in Ancestors(net.graph, out)

\* C7 happens: a plan with asked outputs of which an operation can be removed
\* with every asked output still produced
MinimalityWitness ==
    \E k \in AskedKeys : \E removed \in Range(StepOps(cached_plans[k])) :
        ProducedWithout(k, removed) = Range(k.outputs.names)

---------------------------------------------------------------------------
(* Properties of the compile calls.                                        *)

\* the last call was a compile that returned a plan
Returned == ret.op = "compile" /\ ret.plan.err = None

\* C3: after any sequence of compile calls and changes of skip_evictions, a
\* compile call made while skip_evictions is true, or with no outputs asked,
\* returns a plan whose steps hold no eviction.
NoEvictPolicy ==
    Returned /\ (ret.skip \/ ret.outputs.names = <<>>) => EvictionPositions(ret.plan) = {}

\* two collections a caller passes are permutations of each other (or both None)
IsPermutation(c, d) == c.given = d.given /\ Len(c.names) = Len(d.names) /\ Range(c.names) = Range(d.names)

\* C8: of two compile calls on the same network whose inputs are permutations
\* of each other, whose outputs are permutations of each other (or both None)
\* and whose predicate is the same, the second hits the cache entry of the
\* first: it returns the plan the first returned, builds no plan and adds no
\* cache entry.
CacheHitOnPermutation ==
    [][(/\ Returned
        /\ ret' # ret
        /\ IsPermutation(ret.inputs, ret'.inputs)
        /\ IsPermutation(ret.outputs, ret'.outputs)
        /\ ret.predicate = ret'.predicate)
       => (ret'.hit /\ ret'.plan = ret.plan /\ cached_plans' = cached_plans)]_vars

\* C8 happens: a call whose inputs and outputs are both out of sorted order
\* hit the cache and returned the stored plan
CacheHitOnPermutationWitness ==
    /\ Returned
    /\ ret.hit
    /\ ret.inputs.names # sorted(ret.inputs.names)
    /\ ret.outputs.names # sorted(ret.outputs.names)
    /\ ret.plan \in Plans

\* the outputs of the last call that are no nodes of the network graph
AbsentOutputs == Range(ret.outputs.names) \ NodeSet(net.graph)

\* C10: compile with a non-empty outputs collection holding a name that is no
\* node of the network graph fails with the "Unknown output nodes" error,
\* which names the absent outputs and only them, whatever the inputs (given
\* or None) and the predicate are.
UnknownOutputsFail ==
    ret.op = "compile" /\ AbsentOutputs # {} =>
        /\ ret.plan.err = "Unknown output nodes"
        /\ Range(ret.plan.unknown) = AbsentOutputs
        /\ CacheKey(ret.inputs, ret.outputs, ret.predicate) \notin DOMAIN cached_plans

\* C10 happens: a call with inputs None, a predicate, and outputs of which one
\* is a node of the graph and one is not, made when a plan was cached
UnknownOutputsFailWitness ==
    /\ ret.op = "compile"
    /\ ~ret.inputs.given
    /\ ret.predicate # NoPredicate
    /\ AbsentOutputs # {}
    /\ AbsentOutputs # Range(ret.outputs.names)
    /\ ret.plan.err = "Unknown output nodes"
    /\ cached_plans # << >>

---------------------------------------------------------------------------
(* Properties of concurrent compile calls.                                 *)

\* every thread has returned from compile
AllReturned == threads # << >> /\ \A t \in Threads : threads[t].pc = "done"

---------------------------------------------------------------------------
(* Properties of evictions over sub-document chains.                       *)

\* the topmost sub-document ancestor of a document in the network's graph
RECURSIVE ChainRoot(_, _)
ChainRoot(g, doc) ==
    IF \E e \in g.subdoc : e[2] = doc
    THEN ChainRoot(g, (CHOOSE e \in g.subdoc : e[2] = doc)[1])
    ELSE doc

\* C11: every eviction instruction of a compiled plan names a chain root, the
\* topmost sub-document ancestor of the need or pruned provide that caused
\* it, whatever the depth of the chain and whichever rule evicted.
EvictionsNameChainRoots ==
    \A plan \in Plans : \A i \in EvictionPositions(plan) :
        ChainRoot(net.graph, plan.steps[i]) = plan.steps[i]

\* C12: whenever Evict(r) is at position i of a compiled plan, no operation at
\* a later position needs r or a sub-document descendant of r (siblings of
\* the need that caused the eviction included), and no asked output is r or a
\* sub-document descendant of r.
EvictedChainUnused ==
    \A k \in DOMAIN cached_plans : LET plan == cached_plans[k] IN
        \A i \in EvictionPositions(plan) :
            LET evicted == ChainDown(net.graph, {plan.steps[i]})
            IN /\ \A j \in OperationPositions(plan) :
                      j > i => Range(NeedNames(OperationNamed(plan.steps[j]))) \cap evicted = {}
               /\ Range(k.outputs.names) \cap evicted = {}

---------------------------------------------------------------------------
(* Properties of pruning at the given inputs.                              *)

\* the data that lead to the asked outputs of key k in the network graph: the
\* outputs, the documents of their chains, and everything with a path to one
LeadingToOutputs(k) ==
    LET outs == ChainDocs(net.graph, Range(k.outputs.names) \cap NodeSet(net.graph))
    IN outs \cup UNION {Ancestors(net.graph, o) : o \in outs}

\* the provides of an operation that lead to the asked outputs of key k
LeadingProvides(op, k) == Range(ProvideNames(op)) \cap LeadingToOutputs(k)

\* the keys of the plans compiled with both inputs and outputs given
GivenKeys == {k \in DOMAIN cached_plans : k.inputs.given /\ k.outputs.given}

\* C13: when compile is given inputs, every operation whose only provides
\* leading to the asked outputs are given inputs is absent from the steps of
\* the plan, while an operation with all its needs given that provides, next
\* to a given input, another data leading to the outputs is in the steps.
GivenInputProducers ==
    \A k \in GivenKeys : \A i \in DOMAIN net.ops :
        LET op == net.ops[i]
            given == Range(k.inputs.names)
            leading == LeadingProvides(op, k)
        IN /\ (leading # {} /\ leading \subseteq given) => op.name \notin Range(cached_plans[k].steps)
           /\ (/\ Range(ProvideNames(op)) \cap given # {}
               /\ leading \ given # {}
               /\ Range(NeedNames(op)) \subseteq given
               /\ op.name \notin k.predicate.rejects) => op.name \in Range(cached_plans[k].steps)

\* C13 happens: a plan was compiled from which an operation is absent whose
\* provides leading to the asked outputs are all given as inputs, although
\* all its needs were given too
GivenInputProducersWitness ==
    \E k \in GivenKeys : \E i \in DOMAIN net.ops :
        /\ LeadingProvides(net.ops[i], k) # {}
        /\ LeadingProvides(net.ops[i], k) \subseteq Range(k.inputs.names)
        /\ Range(NeedNames(net.ops[i])) \subseteq Range(k.inputs.names)
        /\ net.ops[i].name \notin Range(cached_plans[k].steps)
        /\ cached_plans[k].steps # <<>>

---------------------------------------------------------------------------
(* Properties of building a network.                                       *)

\* the given operations with every nested pipeline replaced by its operations
RECURSIVE Flattened(_)
Flattened(operations) ==
    IF operations = <<>> THEN <<>>
    ELSE (IF Head(operations).kind = "Pipeline" THEN Head(operations).ops ELSE <<Head(operations)>>)
             \o Flattened(Tail(operations))

\* the positions of a flattened list holding the first item of their name
FirstOccurrences(flat) == {i \in DOMAIN flat : \A j \in 1..(i - 1) : flat[j].op.name # flat[i].op.name}

\* the operations at the given positions of a flattened list, in order
OperationsAt(flat, positions) ==
    LET at == FilterSeq([i \in DOMAIN flat |-> i], positions)
    IN [n \in DOMAIN at |-> flat[at[n]].op]

\* C14: build_network keeps, for every operation name, the first operation of
\* that name in the flattened order of the given operations and the nested
\* pipelines' operations, and drops every later one of that name; the kept
\* operations are in the network in first-occurrence order.
FirstOperationWins ==
    ret.op = "build_network" =>
        LET flat == Flattened(ret.operations)
        IN net.ops = OperationsAt(flat, {i \in FirstOccurrences(flat) : flat[i].kind # "NULL_OP"})

\* C14 happens: a network was built from a list holding, after flattening a
\* nested pipeline, two different operations of one name, and the earlier
\* one is in the network
FirstOperationWinsWitness ==
    /\ ret.op = "build_network"
    /\ \E n \in DOMAIN ret.operations : ret.operations[n].kind = "Pipeline"
    /\ LET flat == Flattened(ret.operations)
       IN \E i, j \in DOMAIN flat :
              /\ i < j
              /\ flat[i].op.name = flat[j].op.name
              /\ flat[i] # flat[j]
              /\ flat[i].kind = "op" /\ flat[j].kind = "op"
              /\ flat[i].op \in Range(net.ops)

\* C15: a NULL_OP(name) given to build_network removes every operation of
\* that name that comes after it in merge order, never removes an operation
\* of that name that comes before it, and is itself no node of the network.
NullOpDropsLater ==
    ret.op = "build_network" =>
        LET flat == Flattened(ret.operations)
        IN \A i \in DOMAIN flat : flat[i].kind = "NULL_OP" =>
               /\ \A j \in DOMAIN flat :
                      (j > i /\ flat[j].op.name = flat[i].op.name /\ flat[j].kind = "op")
                          => (flat[j].op \in Range(net.ops) => \E m \in 1..(i - 1) : flat[m] = flat[j])
               /\ \A j \in FirstOccurrences(flat) :
                      (j < i /\ flat[j].op.name = flat[i].op.name /\ flat[j].kind = "op")
                          => flat[j].op \in Range(net.ops)
               /\ flat[i].op \notin Range(net.ops)
               /\ (i \in FirstOccurrences(flat) => ~HasNode(net.graph, flat[i].op.name))

\* C15 happens: a network was built from a list with a NULL_OP that has an
\* operation of its name after it, and another NULL_OP that has one before it
NullOpDropsLaterWitness ==
    /\ ret.op = "build_network"
    /\ LET flat == Flattened(ret.operations)
       IN /\ \E i, j \in DOMAIN flat :
                 i < j /\ flat[i].kind = "NULL_OP" /\ flat[j].kind = "op" /\ flat[j].op.name = flat[i].op.name
                 /\ i \in FirstOccurrences(flat)
          /\ \E i, j \in DOMAIN flat :
                 j < i /\ flat[i].kind = "NULL_OP" /\ flat[j].kind = "op" /\ flat[j].op.name = flat[i].op.name
                 /\ flat[j].op \in Range(net.ops)

\* the positions of a list of operations that have an earlier operation of
\* the same name
SurplusOccurrences(operations) ==
    {i \in DOMAIN operations : \E j \in 1..(i - 1) : operations[j].name = operations[i].name}

\* C16: constructing a Network from a list in which two operations have the
\* same name fails with 'Operations may only be added once' and reports
\* exactly the surplus occurrences as dupes; a list of operations of distinct
\* names never fails this way.
DuplicatesRejected ==
    ret.op = "Network" =>
        /\ (ret.err = "Operations may only be added once") <=> (SurplusOccurrences(ret.operations) # {})
        /\ ret.err # None =>
               LET at == FilterSeq([i \in DOMAIN ret.operations |-> i], SurplusOccurrences(ret.operations))
               IN ret.dupes = [n \in DOMAIN at |-> ret.operations[at[n]]]
        /\ ret.err = None => net.ops = ret.operations

\* C16 happens: a Network was constructed from a list with two different
\* operations of one name, and the error reports the later one
DuplicatesRejectedWitness ==
    /\ ret.op = "Network"
    /\ ret.err # None
    /\ \E i, j \in DOMAIN ret.operations :
           /\ i < j
           /\ ret.operations[i].name = ret.operations[j].name
           /\ ret.operations[i] # ret.operations[j]
           /\ ret.dupes = <<ret.operations[j]>>

---------------------------------------------------------------------------
(* Properties of the network and its plan cache across compile calls.      *)

\* C17: after any sequence of compile calls (successful or failing, with any
\* inputs, outputs and predicate) the network's graph nodes, edges and edge
\* attributes and its needs and provides are the same as right after
\* construction.
NetworkNeverMutated ==
    /\ net.graph = Network(net.ops).graph
    /\ net.needs = Network(net.ops).needs
    /\ net.provides = Network(net.ops).provides

\* C17 happens: after an earlier compile call, a call with given inputs and a
\* predicate that rejects an operation of the network missed the cache and
\* built a plan from a graph with that operation removed and edges broken
NetworkNeverMutatedWitness ==
    /\ ret.op = "compile"
    /\ ~ret.hit
    /\ ret.plan.err = None
    /\ ret.inputs.given
    /\ \E n \in NodeSet(net.graph) : n \in ret.predicate.rejects /\ ~HasNode(ret.plan.dag, n)
    /\ \E n \in Range(ret.inputs.names) : in_edges(net.graph, n) # {} /\ in_edges(ret.plan.dag, n) = {}
    /\ Cardinality(DOMAIN cached_plans) = MaxCallPlans

\* C18: across any sequence of compile calls on one network the set of cache
\* keys only grows, each successful call with a new key adds exactly one
\* entry, and the plan stored under an existing key is never replaced or
\* removed.
CacheOnlyGrows ==
    [][/\ \A k \in DOMAIN cached_plans : k \in DOMAIN cached_plans' /\ cached_plans'[k] = cached_plans[k]
       /\ (ret' # ret /\ ret'.op = "compile" /\ ~ret'.hit /\ ret'.plan.err = None) =>
              LET cache_key == CacheKey(ret'.inputs, ret'.outputs, ret'.predicate)
              IN /\ cache_key \notin DOMAIN cached_plans
                 /\ DOMAIN cached_plans' = DOMAIN cached_plans \cup {cache_key}
       /\ (ret' # ret /\ ret'.op = "compile" /\ (ret'.hit \/ ret'.plan.err # None)) =>
              DOMAIN cached_plans' = DOMAIN cached_plans]_vars

\* C18 happens: a successful call with a new key has added its plan to a
\* cache that held the plan of another key, which is still there
CacheOnlyGrowsWitness ==
    /\ ret.op = "compile"
    /\ ~ret.hit
    /\ ret.plan.err = None
    /\ CacheKey(ret.inputs, ret.outputs, ret.predicate) \in DOMAIN cached_plans
    /\ \E k \in DOMAIN cached_plans : k # CacheKey(ret.inputs, ret.outputs, ret.predicate)

---------------------------------------------------------------------------
(* Properties of Pipeline.compute.                                         *)

\* C19: Pipeline.compute resets the global abort flag to false exactly when
\* its compile step succeeded and before execution starts; when compile
\* raises, the abort flag keeps the value it had before the call.
AbortResetAfterCompile ==
    [][/\ (ret.pc = "compiling") => abort' = abort
       /\ (ret'.pc = "raised" /\ ret.pc # "raised") => abort' = ret.abort_before
       /\ (ret'.pc = "executing" /\ ret.pc # "executing") => (ret.pc = "compiled" /\ abort' = FALSE)
       /\ (abort /\ ~abort') => (ret.pc = "compiled" /\ ret'.pc = "executing")]_vars

\* C19 happens: a compute called with the abort flag set has compiled, reset
\* the flag and executed its plan to the end
AbortResetAfterCompileWitness ==
    /\ ret.abort_before
    /\ ret.pc = "done"
    /\ ~abort

---------------------------------------------------------------------------
(* Properties of the sub-document chains of a built network.               *)

\* the needs and provides of the network's operations that are jsonp names
JsonpDependencies ==
    UNION {{op.needs[i] : i \in DOMAIN op.needs} \cup {op.provides[i] : i \in DOMAIN op.provides} : op \in Range(net.ops)}

\* the data nodes of the network's graph
DataNodes == {n \in NodeSet(net.graph) : ~IsOperation(n)}

\* C20: after a Network is built from any list of operations, for every need
\* or provide that is a jsonp name s1/.../sk every prefix s1/.../si is a data
\* node and every two consecutive prefixes are linked by an edge parent ->
\* child carrying subdoc=true, also when dependencies of one or of different
\* operations share prefixes; every data node has at most one subdoc parent.
SubdocChainsLinked ==
    /\ \A dep \in JsonpDependencies : Len(dep.parts) > 1 =>
           /\ \A i \in 1..Len(dep.parts) : JoinPath(SubSeq(dep.parts, 1, i)) \in DataNodes
           /\ \A i \in 1..(Len(dep.parts) - 1) :
                  LET edge == <<JoinPath(SubSeq(dep.parts, 1, i)), JoinPath(SubSeq(dep.parts, 1, i + 1))>>
                  IN edge \in EdgeSet(net.graph) /\ edge \in net.graph.subdoc
    /\ \A d \in DataNodes : Cardinality({e \in net.graph.subdoc : e[2] = d}) <= 1
    /\ net.graph.subdoc \subseteq EdgeSet(net.graph)

\* C20 happens: a network was built from operations whose jsonp dependencies
\* share prefixes, one of them three documents deep
SubdocChainsLinkedWitness ==
    /\ ret.op \in {"Network", "build_network"}
    /\ \E a, b \in JsonpDependencies :
           /\ a # b
           /\ Len(a.parts) = 3 /\ Len(b.parts) = 2
           /\ SubSeq(a.parts, 1, 2) = b.parts
    /\ \E a, b \in JsonpDependencies :
           Len(a.parts) = 2 /\ Len(b.parts) = 2 /\ a # b /\ a.parts[1] = b.parts[1]


---------------------------------------------------------------------------
(* The call of unsatisfied_operations that _prune_graph makes: compile     *)
(* hands its sorted inputs and outputs to _prune_graph, which breaks the   *)
(* dag and asks which of its operations are unsatisfied.                   *)

\* the operations of the networks: an optional-only need, a mixed one, a
\* need that is a sub-document ancestor of another operation's provide, and
\* operations over one document and its sub-documents
SatCatalogue ==
    {OperationNamed(name) : name \in {"op1", "op3", "op4", "op5", "op6", "op7", "op11", "op12"}}

SatNetworks ==
    {n \in {Network(operations) : operations \in DistinctSeqs(SatCatalogue, MaxOps) \ {<<>>}} : IsDag(n.graph)}

SatInputNames == {"x", "c/d"}
SatOutputNames == {"y", "a"}
SatRequests ==
    {Request(i, o, NoPredicate) : <<i, o>> \in Collections(SatInputNames) \X Collections(SatOutputNames)}

InitUnsat ==
    /\ net \in SatNetworks
    /\ env \in Envs
    /\ skip_evictions = FALSE
    /\ cached_plans = << >>
    /\ ret = NoCall
    /\ twin = NoTwin
    /\ threads = << >>
    /\ abort = FALSE

\* unsatisfied = unsatisfied_operations(broken_dag, satisfied_inputs), with
\* ok_data as it is before the nodes are visited
UnsatisfiedCall(r) ==
    LET key == CacheKey(r.inputs, r.outputs, r.predicate)
        broken_dag == BrokenDag(net, key.inputs, key.outputs, key.predicate, env.hash_seed)
        satisfied_inputs == SatisfiedInputs(net, key.inputs, key.outputs)
    IN /\ ret = NoCall
       /\ CompileError(net, key).err = None
       /\ ret' = [op |-> "unsatisfied_operations",
                  request |-> r,
                  dag |-> broken_dag,
                  inputs |-> satisfied_inputs,
                  ok_data |-> SeedOkData(broken_dag, satisfied_inputs),
                  unsatisfied |-> unsatisfied_operations(broken_dag, satisfied_inputs, env.nx_sort)]
       /\ UNCHANGED <<net, env, skip_evictions, cached_plans, twin, threads, abort>>

NextUnsat == \E r \in SatRequests : UnsatisfiedCall(r)

SpecUnsat == InitUnsat /\ [][NextUnsat]_vars

---------------------------------------------------------------------------
(* Properties of unsatisfied_operations.                                   *)

\* the documents reached from the given ones along subdoc edges, towards the
\* parents (up) or towards the children
RECURSIVE SubdocReach(_, _, _, _)
SubdocReach(dag, frontier, seen, up) ==
    LET links == dag.subdoc \cap EdgeSet(dag)
        new == {IF up THEN e[1] ELSE e[2] : e \in {e \in links : (IF up THEN e[2] ELSE e[1]) \in frontier}} \ seen
    IN IF new = {} THEN seen ELSE SubdocReach(dag, new, seen \cup new, up)

\* a document of the dag with all its sub-document ancestors and descendants
ChainOf(dag, doc) ==
    IF ~HasNode(dag, doc) THEN {}
    ELSE {doc} \cup SubdocReach(dag, {doc}, {}, TRUE) \cup SubdocReach(dag, {doc}, {}, FALSE)

ChainsOf(dag, docs) == UNION {ChainOf(dag, d) : d \in docs}

OperationsOf(dag) == {n \in NodeSet(dag) : IsOperation(n)}

\* the needs of an operation through edges that are not optional
RealNeeds(dag, op) == {e[1] : e \in {e \in in_edges(dag, op) : e \notin dag.optional}}

\* the satisfied operations: the least set in which an operation with an
\* outgoing edge is satisfied once each of its compulsory needs is in the
\* chain of a satisfied input or of a provide of a satisfied operation
RECURSIVE SatisfiedFrom(_, _, _)
SatisfiedFrom(dag, inputs, satisfied) ==
    LET ok == ChainsOf(dag, inputs) \cup ChainsOf(dag, UNION {Successors(dag, op) : op \in satisfied})
        more == {op \in OperationsOf(dag) : Successors(dag, op) # {} /\ RealNeeds(dag, op) \subseteq ok}
    IN IF more = satisfied THEN satisfied ELSE SatisfiedFrom(dag, inputs, more)
SatisfiedOperations(dag, inputs) == SatisfiedFrom(dag, inputs, {})

\* C21: unsatisfied_operations marks an operation of the broken dag as
\* unsatisfied if and only if it has no outgoing edge left or some compulsory
\* need of it is neither a satisfied input (or chained to one) nor a provide
\* (or chained to a provide) of a satisfied operation.
UnsatisfiedIff ==
    ret.op = "unsatisfied_operations" =>
        \A op \in OperationsOf(ret.dag) :
            op \in Range(ret.unsatisfied) <=> op \notin SatisfiedOperations(ret.dag, Range(ret.inputs))

\* C22: at the start of unsatisfied_operations ok_data holds every satisfied
\* input that is in the dag with all its sub-document ancestors and
\* descendants, whatever the order of the inputs.
OkDataSeeded ==
    ret.op = "unsatisfied_operations" => ChainsOf(ret.dag, Range(ret.inputs)) \subseteq ret.ok_data

\* C29: the operations unsatisfied_operations returns are the same for every
\* topological order of the dag's nodes; the orders compared are the ones the
\* versions of networkx produce.
OrderIndependent ==
    ret.op = "unsatisfied_operations" =>
        \A nx_sort \in NxSorts :
            LET sorted_nodes == topological_sort(ret.dag, nx_sort)
            IN IsTopologicalOrder(ret.dag, sorted_nodes)
                   => Range(UnsatisfiedInOrder(ret.dag, ret.inputs, sorted_nodes)) = Range(ret.unsatisfied)

---------------------------------------------------------------------------
(* Properties of the eviction rules.                                       *)

\* the evictions right after position i of the steps, up to the next operation
EvictionsAfter(steps, i) ==
    {steps[j] : j \in {j \in (i + 1)..Len(steps) : \A m \in (i + 1)..j : ~IsOperation(steps[m])}}

\* no member of the chain of need n is an asked output or chained to one, and
\* no member is consumed by an operation placed after position i
NeedUnused(k, plan, i, n) ==
    LET chain == ChainOf(plan.dag, n)
    IN /\ chain \cap ChainsOf(plan.dag, Range(k.outputs.names)) = {}
       /\ \A j \in OperationPositions(plan) :
              j > i => \A m \in chain : <<m, plan.steps[j]>> \notin EdgeSet(plan.dag)

\* the plan of key k evicts, right after each of its operations, the needs of
\* the operation that are unused and, of the data of the plan's dag, nothing else
EvictsUnusedNeeds(k, plan) ==
    \A i \in OperationPositions(plan) :
        LET needs == Predecessors(plan.dag, plan.steps[i])
            evicted == EvictionsAfter(plan.steps, i)
        IN /\ \A n \in needs : NeedUnused(k, plan, i, n) => root_doc(plan.dag, n) \in evicted
           /\ \A d \in evicted : HasNode(plan.dag, d) =>
                  \E n \in needs : root_doc(plan.dag, n) = d /\ NeedUnused(k, plan, i, n)

\* C23: when outputs are asked and skip_evictions is off, right after an
\* operation of the steps an eviction for a need of it is emitted if and only
\* if no member of the need's sub-document chain is an asked output or chained
\* to one and no member of the chain is consumed by an operation placed later.
EvictionIffUnused ==
    [][\A k \in DOMAIN cached_plans' \ DOMAIN cached_plans :
           (k.outputs.given /\ ~skip_evictions) => EvictsUnusedNeeds(k, cached_plans'[k])]_vars

\* C23 happens: a plan with asked outputs in which one need is evicted right
\* after its operation, another is kept because an operation placed later
\* consumes a document of its chain, and another because its chain holds an
\* asked output
EvictionIffUnusedWitness ==
    \E k \in DOMAIN cached_plans : LET plan == cached_plans[k] IN
        /\ k.outputs.given
        /\ \E i \in OperationPositions(plan) : \E n \in Predecessors(plan.dag, plan.steps[i]) :
               NeedUnused(k, plan, i, n) /\ root_doc(plan.dag, n) \in EvictionsAfter(plan.steps, i)
        /\ \E i \in OperationPositions(plan) : \E n \in Predecessors(plan.dag, plan.steps[i]) :
               /\ root_doc(plan.dag, n) \notin EvictionsAfter(plan.steps, i)
               /\ \E j \in OperationPositions(plan) : j > i /\ \E m \in ChainOf(plan.dag, n) : <<m, plan.steps[j]>> \in EdgeSet(plan.dag)
        /\ \E i \in OperationPositions(plan) : \E n \in Predecessors(plan.dag, plan.steps[i]) :
               /\ root_doc(plan.dag, n) \notin EvictionsAfter(plan.steps, i)
               /\ n \notin Range(k.outputs.names)
               /\ ChainOf(plan.dag, n) \cap ChainsOf(plan.dag, Range(k.outputs.names)) # {}

\* the same data name is two adjacent steps of the plan
AdjacentSameEviction(plan) ==
    \E i \in 1..(Len(plan.steps) - 1) :
        ~IsOperation(plan.steps[i]) /\ plan.steps[i] = plan.steps[i + 1]

\* C24: in every compiled plan no two adjacent steps are evictions of the
\* same data name (the same name may be evicted again at a later position
\* that is not adjacent).
NoAdjacentDuplicateEvictions == \A plan \in Plans : ~AdjacentSameEviction(plan)

\* two needs of the operation at position i of the plan are unused and have
\* the same document to evict
TwoNeedsOneEviction(k, plan, i) ==
    \E n1, n2 \in Predecessors(plan.dag, plan.steps[i]) :
        /\ n1 # n2
        /\ root_doc(plan.dag, n1) = root_doc(plan.dag, n2)
        /\ NeedUnused(k, plan, i, n1) /\ NeedUnused(k, plan, i, n2)

\* C24 happens: two needs of one operation of a plan ask for the eviction of
\* the same document, one after the other, and the plan evicts after it
NoAdjacentDuplicateEvictionsWitness ==
    \E k \in DOMAIN cached_plans : \E i \in OperationPositions(cached_plans[k]) :
        /\ TwoNeedsOneEviction(k, cached_plans[k], i)
        /\ EvictionsAfter(cached_plans[k].steps, i) # {}

\* a plan evicts the same name at two positions that are not adjacent
SameNameEvictedAgain ==
    \E plan \in Plans : \E i, j \in EvictionPositions(plan) :
        j > i + 1 /\ plan.steps[i] = plan.steps[j]

---------------------------------------------------------------------------
(* Networks with optional needs: compile calls on networks in which a data *)
(* is needed optionally by some operations, compulsorily by others, and is *)
(* a document with sub-documents.                                          *)

OptCatalogue ==
    {OperationNamed(name) : name \in {"op2", "op3", "op6", "op11", "op12", "op14"}}

OptNetworks ==
    {n \in {Network(operations) : operations \in DistinctSeqs(OptCatalogue, MaxOps) \ {<<>>}} : IsDag(n.graph)}

OptInputNames == {"x", "a", "c"}
OptOutputNames == {"v", "y"}
OptRequests ==
    {Request(i, o, NoPredicate) : <<i, o>> \in Collections(OptInputNames) \X Collections(OptOutputNames)}

InitOptional ==
    /\ net \in OptNetworks
    /\ env \in Envs
    /\ skip_evictions = FALSE
    /\ cached_plans = << >>
    /\ ret = NoCall
    /\ twin = NoTwin
    /\ threads = << >>
    /\ abort = FALSE

OptCompileNew ==
    /\ Cardinality(DOMAIN cached_plans) < MaxPlans
    /\ \E r \in OptRequests : Compile(r.inputs, r.outputs, r.predicate)
    /\ UNCHANGED ret

NextOptional == OptCompileNew

SpecOptional == InitOptional /\ [][NextOptional]_vars

---------------------------------------------------------------------------
(* Properties of the needs and provides of networks and plans.             *)

\* every edge from data d to an operation of the graph carries optional=true
OptionalForEveryOperation(graph, d) ==
    \A e \in out_edges(graph, d) : IsOperation(e[2]) => e \in graph.optional

\* C25: in the needs collected for a network and in the resolved needs of a
\* plan, a data node is marked optional if and only if every edge from it to
\* an operation carries optional=true; the sub-document edges leaving it do
\* not affect its optionality.
OptionalIffAllEdges ==
    /\ \A i \in DOMAIN net.needs :
           net.needs[i].optional <=> OptionalForEveryOperation(net.graph, net.needs[i].name)
    /\ \A plan \in Plans : \A i \in DOMAIN plan.needs :
           plan.needs[i].optional <=> OptionalForEveryOperation(plan.dag, plan.needs[i].name)

\* C26: the provides of a compiled plan are the asked outputs that are nodes
\* of the pruned dag when outputs were asked; when none were asked (outputs
\* None, with inputs given or None) they are the network provides that are in
\* the pruned dag and are not resolved inputs.
PlanProvides ==
    \A k \in DOMAIN cached_plans : LET plan == cached_plans[k] IN
        IF k.outputs.given
        THEN Range(plan.provides) = Range(k.outputs.names) \cap NodeSet(plan.dag)
        ELSE Range(plan.provides) = (Range(net.provides) \cap NodeSet(plan.dag)) \ Range(Names(plan.needs))

---------------------------------------------------------------------------
(* Compile calls with inputs that are no nodes of the network, under one   *)
(* configuration of skip_evictions, set before the calls.                  *)

InputNetworks ==
    {Network(CallOperations), Network(<<OperationNamed("op5"), OperationNamed("op4")>>)}

\* "r" is no node of the first network, "a" no node of the second, "q" of none
GivenInputNames == {"x", "a", "r"}
InputRequests ==
    {Request(i, o, NoPredicate) : <<i, o>> \in Collections(GivenInputNames) \X {NotGiven, Given(<<"y">>), Given(<<"q">>)}}

InitInputs ==
    /\ net \in InputNetworks
    /\ env \in Envs
    /\ skip_evictions \in BOOLEAN
    /\ cached_plans = << >>
    /\ ret = NoCall
    /\ twin = NoTwin
    /\ threads = << >>
    /\ abort = FALSE

NextInputs == \E r \in InputRequests : Call(r)

SpecInputs == InitInputs /\ [][NextInputs]_vars

\* the given inputs less the names that are no nodes of the network
KnownInputs(inputs) == Given(FilterSeq(inputs.names, NodeSet(net.graph)))

\* C27: given inputs that are no nodes of the network graph are ignored and
\* never cause an error: compile(I, O, pred) and compile(I less the names
\* absent from the graph, O, pred) return plans with equal needs, provides
\* and steps, and the first call does not fail when the second has succeeded.
UnknownInputsIgnored ==
    /\ \A k1, k2 \in DOMAIN cached_plans :
           (k1.inputs.given /\ k2.inputs = KnownInputs(k1.inputs)
                /\ k2.outputs = k1.outputs /\ k2.predicate = k1.predicate)
               => /\ cached_plans[k1].needs = cached_plans[k2].needs
                  /\ cached_plans[k1].provides = cached_plans[k2].provides
                  /\ cached_plans[k1].steps = cached_plans[k2].steps
    /\ (ret.op = "compile" /\ ret.inputs.given /\ ret.plan.err # None)
           => CacheKey(KnownInputs(ret.inputs), ret.outputs, ret.predicate) \notin DOMAIN cached_plans

\* C27 happens: the cache holds the plan of a call whose inputs held a name
\* that is no node of the network, with operations among its steps, and the
\* plan of the call without that name
UnknownInputsIgnoredWitness ==
    \E k1, k2 \in DOMAIN cached_plans :
        /\ k1.inputs.given /\ k1 # k2
        /\ k2.inputs = KnownInputs(k1.inputs)
        /\ k2.outputs = k1.outputs /\ k2.predicate = k1.predicate
        /\ cached_plans[k1].steps # <<>>
        /\ cached_plans[k1].needs # <<>>

---------------------------------------------------------------------------
(* Compile calls that fail: outputs that are no nodes of the network, and  *)
(* a node predicate that raises on an operation.                           *)

\* a predicate that raises when it is asked about op3
RaisingPredicate == [id |-> "raises_on_op3", rejects |-> {}, raises |-> {"op3"}]

FailingRequests ==
    {Request(i, o, p) : <<i, o, p>> \in CallCollections(CallInputNames)
                                        \X CallCollections({"y", "q"})
                                        \X ({NoPredicate, RaisingPredicate} \cup Predicates)}

NextFailures ==
    \/ \E enabled \in BOOLEAN : SetSkipEvictions(enabled)
    \/ \E r \in FailingRequests : Call(r)

SpecFailures == InitCalls /\ [][NextFailures]_vars

\* C28: a compile call that fails (unknown output nodes, or a predicate that
\* raises) leaves the plan cache exactly as it was before the call, so a later
\* call with the same key recomputes and fails again instead of returning a
\* cached plan.
FailureLeavesCache ==
    [][/\ (ret' # ret /\ ret'.op = "compile" /\ ret'.plan.err # None) =>
              /\ cached_plans' = cached_plans
              /\ CacheKey(ret'.inputs, ret'.outputs, ret'.predicate) \notin DOMAIN cached_plans'
       /\ (ret' # ret /\ ret.op = "compile" /\ ret'.op = "compile" /\ ret.plan.err # None
               /\ CacheKey(ret'.inputs, ret'.outputs, ret'.predicate) = CacheKey(ret.inputs, ret.outputs, ret.predicate)) =>
              /\ ~ret'.hit
              /\ ret'.plan.err = ret.plan.err
              /\ ret'.plan.err # None]_vars

\* C28 happens: a call whose inputs were given out of order has failed on a
\* predicate that raised, while the cache held a plan of another call, and
\* the cache does not hold the key of the failed call
FailureLeavesCacheWitness ==
    /\ ret.op = "compile"
    /\ ret.plan.err = "Node-predicate failed"
    /\ ~ret.hit
    /\ ret.inputs.given /\ ret.inputs.names # sorted(ret.inputs.names)
    /\ cached_plans # << >>
    /\ CacheKey(ret.inputs, ret.outputs, ret.predicate) \notin DOMAIN cached_plans

---------------------------------------------------------------------------
(* Empty outputs against no outputs.                                       *)

\* the operations among the steps of a plan
StepOperations(plan) == {s \in Range(plan.steps) : IsOperation(s)}

\* the operations of the network satisfiable from the inputs of a call made
\* without outputs, in the dag the call prunes
SatisfiableFrom(network, k, hash_seed) ==
    SatisfiedOperations(BrokenDag(network, k.inputs, k.outputs, k.predicate, hash_seed),
                        Range(SatisfiedInputs(network, k.inputs, k.outputs)))

\* C30: compile with an explicitly empty outputs collection returns a plan
\* with no steps at all and asked_outs true, whereas compile with outputs None
\* returns every operation satisfiable from the inputs and asked_outs false.
EmptyOutputsNoSteps ==
    [][\A k \in DOMAIN cached_plans' \ DOMAIN cached_plans :
          LET plan == cached_plans'[k]
          IN /\ (k.outputs.given /\ k.outputs.names = <<>>) =>
                    plan.steps = <<>> /\ plan.asked_outs
             /\ ~k.outputs.given =>
                    /\ ~plan.asked_outs
                    /\ StepOperations(plan) = SatisfiableFrom(net, k, env.hash_seed)]_vars
=============================================================================
